---- MODULE Spec2Model ----
(***************************************************************************)
(* Model of the Scene State Synchronization & Publishing Engine:           *)
(*   - SceneStateStorageController (shared/apis/SceneStateStorageController)*)
(*   - StatefulWebWorkerScene      (scene-system/stateful.scene.system.ts)  *)
(*                                                                         *)
(* An action is one JavaScript run-to-completion chunk: the code between    *)
(* the resumption of one await and the start of the next one.  Every call   *)
(* of a collaborator (editor backend, content store, asset server, local    *)
(* storage) resolves or rejects by a nondeterministic choice.  Messages to  *)
(* the renderer (getUnityInstance().Send...) are fire-and-forget sends on   *)
(* the renderer transport and do not fail.                                  *)
(***************************************************************************)
EXTENDS Integers, Sequences, FiniteSets, TLC

(***************************************************************************)
(* Bounds                                                                  *)
(***************************************************************************)
\* longest wire payload (number of components) an invocation is given
MaxComponents == 2
\* number of writing operations (publish, save, create) invoked in one
\* session; the reading operations are not bounded
MaxWrites == 1

(***************************************************************************)
(* Data                                                                    *)
(***************************************************************************)
Undefined == [kind |-> "undefined"]

GLTF_SHAPE == "GLTF_SHAPE"
TRANSFORM == "TRANSFORM"
\* a component that is no shape and whose value has an assetId
SMART_ITEM == "SMART_ITEM"

AssetIds == {"abc", "xyz"}

\* A component of the wire format (SerializedSceneState), with the entity
\* that owns it: {type, value}; value.assetId is "" when the value has none.
Components ==
  { [entity |-> "E1", type |-> TRANSFORM, assetId |-> ""],
    [entity |-> "E1", type |-> SMART_ITEM, assetId |-> "xyz"],
    [entity |-> "E1", type |-> GLTF_SHAPE, assetId |-> "abc"],
    [entity |-> "E2", type |-> GLTF_SHAPE, assetId |-> "abc"],
    [entity |-> "E2", type |-> GLTF_SHAPE, assetId |-> "xyz"] }

SeqsUpTo(S, n) == UNION { [1..k -> S] : k \in 0..n }

\* A payload without its entities array, as an RPC caller may send it.
Malformed == [kind |-> "malformed"]

WellFormed == { [entities |-> s] : s \in SeqsUpTo(Components, MaxComponents) }
Payloads == WellFormed \cup {Malformed}

SceneIds == {"scene1", "scene2"}

\* parcelIdentity.cid: the deployed entity this session was loaded from
Cid == "scene1"

Key(c) == <<c.entity, c.type>>

\* deterministic key order of the storable format
KeyOrder ==
  << <<"E1", GLTF_SHAPE>>, <<"E1", SMART_ITEM>>, <<"E1", TRANSFORM>>,
     <<"E2", GLTF_SHAPE>>, <<"E2", TRANSFORM>> >>

RECURSIVE GraphOf(_)
\* the scene graph a list of components decodes to: (entity, type) -> value,
\* a later component of the same type replacing an earlier one
GraphOf(w) ==
  IF w = << >> THEN << >>
  ELSE LET init == SubSeq(w, 1, Len(w) - 1)
           c == w[Len(w)]
           g == GraphOf(init)
       IN [k \in (DOMAIN g) \cup {Key(c)} |->
             IF k = Key(c) THEN c.assetId ELSE g[k]]

\* fromSerializedStateToStorableFormat: the components under their keys
fromSerializedStateToStorableFormat(w) == [graph |-> GraphOf(w.entities)]

\* fromStorableFormatToSerializedState: the components in key order
fromStorableFormatToSerializedState(s) ==
  LET keys == SelectSeq(KeyOrder, LAMBDA k : k \in DOMAIN s.graph)
  IN [entities |->
        [i \in 1..Len(keys) |->
           [entity |-> keys[i][1], type |-> keys[i][2],
            assetId |-> s.graph[keys[i]]]]]

EmptyScene == fromSerializedStateToStorableFormat([entities |-> << >>])

\* the scene a previous session has published: E1 with a transform and E2
\* with a shape of asset "abc"
DeployedScene ==
  fromSerializedStateToStorableFormat(
    [entities |-> << [entity |-> "E1", type |-> TRANSFORM, assetId |-> ""],
                     [entity |-> "E2", type |-> GLTF_SHAPE, assetId |-> "abc"] >>])

\* an entity of the content server without a definition file
NoDefinitionFile == [kind |-> "noDefinitionFile"]

\* the project the editor backend holds for the land
ProjectManifest ==
  [ id |-> "p1", creation_coords |-> [coords |-> "0,0"], title |-> "stored",
    scene |-> DeployedScene.graph ]

\* the project createProjectWithCoords creates
NewProject(coords) ==
  [ id |-> "p2", creation_coords |-> [coords |-> coords], title |-> "new",
    scene |-> << >> ]

Storables == { fromSerializedStateToStorableFormat(w) : w \in WellFormed }

RECURSIVE ShapeAssetIds_AnyType(_)
\* ShapeAssetIds without the test of the component type
ShapeAssetIds_AnyType(w) ==
  IF w = << >> THEN << >>
  ELSE LET init == ShapeAssetIds_AnyType(SubSeq(w, 1, Len(w) - 1))
           c == w[Len(w)]
       IN IF c.assetId # ""
             /\ ~ \E i \in 1..Len(init) : init[i] = c.assetId
          THEN Append(init, c.assetId)
          ELSE init

RECURSIVE ShapeAssetIds(_)
\* getAllAssets / getAllBuilderAssets: the asset ids of the GLTF shape
\* components, in first-occurrence order (a Set spread into an array)
ShapeAssetIds(w) ==
  IF w = << >> THEN << >>
  ELSE LET init == ShapeAssetIds(SubSeq(w, 1, Len(w) - 1))
           c == w[Len(w)]
       IN IF c.type = GLTF_SHAPE /\ c.assetId # ""
             /\ ~ \E i \in 1..Len(init) : init[i] = c.assetId
          THEN Append(init, c.assetId)
          ELSE init

AssetIdsOf(w) == ShapeAssetIds(w.entities)

\* The asset catalogue of the editor backend: the files of each asset
AssetMappings(a) ==
  IF a = "abc" THEN << [file |-> "model.glb", hash |-> "h1"] >>
  ELSE << [file |-> "model.glb", hash |-> "h2"],
          [file |-> "tex.png", hash |-> "h3"] >>

MODELS_FOLDER == "models"

ModelPath(file) == <<MODELS_FOLDER, file>>

RECURSIVE SetAll(_, _)
\* allMappings.set(path, url) for each mapping of one asset, in order
SetAll(m, ms) ==
  IF ms = << >> THEN m
  ELSE LET e == ms[1]
           p == ModelPath(e.file)
           m2 == [k \in (DOMAIN m) \cup {p} |-> IF k = p THEN e.hash ELSE m[k]]
       IN SetAll(m2, SubSeq(ms, 2, Len(ms)))

RECURSIVE AllMappings(_)
\* downloadAssetFiles: path -> url over all the assets, a later asset's
\* mapping replacing an earlier one under the same path
AllMappings(ids) ==
  IF ids = << >> THEN << >>
  ELSE SetAll(AllMappings(SubSeq(ids, 1, Len(ids) - 1)),
              AssetMappings(ids[Len(ids)]))

\* an error a collaborator throws: its message names the collaborator
Err(step) == [name |-> "Error", message |-> step]
\* a property is read of undefined, or fetch() fails
TypeErr(step) == [name |-> "TypeError", message |-> step]
\* line 218
IdentityError ==
  [ name |-> "Error",
    message |-> "Identity not found when trying to deploy an entity" ]
\* line 231: `${error}`, the name and the message of the error in one string
ErrorString(e) == << e.name, ": ", e.message >>

NoResult == [kind |-> "none"]
\* a DeploymentResult, a serialized state, a boolean, a string or nothing
Returned(v) == [kind |-> "returned", value |-> v]
ReturnedState(w) == [kind |-> "returned", state |-> w]
ReturnedFlag(b) == [kind |-> "returned", flag |-> b]
ReturnedAck == [kind |-> "returned", ack |-> "OK"]
ReturnedNothing == [kind |-> "returned", nothing |-> TRUE]
Rejected(e) == [kind |-> "rejected", error |-> e]
Ok == [ok |-> TRUE]
\* line 231: the result of a failed deployment
Failure(e) == [ok |-> FALSE, error |-> ErrorString(e)]

(***************************************************************************)
(* State                                                                   *)
(***************************************************************************)
VARIABLES
  debug,              \* config DEBUG
  identity,           \* getCurrentIdentity(store.getState()) is present
  builderManifest,    \* this.builderManifest
  sceneJsonDisplay,   \* parcelIdentity.land.sceneJsonData.display
  persistentStorage,  \* atomicHelpers/persistentStorage: scene id -> storable
  contentServer,      \* definition file of the entity Cid on the content server
  builderServer,      \* the manifest the editor backend holds
  op,                 \* the operation being executed
  pc,                 \* its position: the await it is suspended at
  args,               \* its arguments
  fetched,            \* downloadAssetFiles: path -> state of its fetch
  assets,             \* publishSceneState: the ids of the resolved assets
  failedAttempts,     \* attempts of the read in progress that have failed
  result,             \* how the invocation ended
  log,                \* collaborator calls started by the invocation
  notified,           \* SendPublishSceneResult messages of the invocation
  deployed,           \* the entities deployEntity has stored in the invocation
  spawned,            \* the publish createProjectFromStateDefinition has started
  bgManifest,         \* its manifest update, in flight and not awaited
  lastSaved,          \* history: the state of the last saveSceneState that succeeded
  invocations,        \* writing operations invoked so far
  sessionBefore       \* history: the session when the operation was invoked, << >> when idle

vars ==
  << debug, identity, builderManifest, sceneJsonDisplay, persistentStorage,
     contentServer, builderServer, op, pc, args, fetched, assets,
     failedAttempts, result, log, notified, deployed, spawned, bgManifest,
     lastSaved, invocations, sessionBefore >>

config == << debug, contentServer >>
stores == << persistentStorage, builderServer >>
session == << builderManifest, sceneJsonDisplay >>
background == << spawned, bgManifest, lastSaved >>


ControllerInit ==
  /\ debug \in BOOLEAN
  /\ identity \in BOOLEAN
  /\ builderManifest = Undefined
  /\ sceneJsonDisplay = Undefined
  /\ persistentStorage \in
       { [id \in SceneIds |-> Undefined],
         [id \in SceneIds |-> IF id = Cid THEN DeployedScene ELSE Undefined] }
  /\ contentServer \in {NoDefinitionFile, DeployedScene}
  /\ builderServer = ProjectManifest
  /\ op = "none"
  /\ pc = "idle"
  /\ args = Undefined
  /\ fetched = << >>
  /\ assets = << >>
  /\ failedAttempts = 0
  /\ result = NoResult
  /\ log = << >>
  /\ notified = << >>
  /\ deployed = << >>
  /\ spawned = Undefined
  /\ bgManifest = Undefined
  /\ lastSaved = Undefined
  /\ invocations = 0
  /\ sessionBefore = << >>


(***************************************************************************)
(* publishSceneState                                                       *)
(***************************************************************************)
Titles == {"title"}
Screenshots == {"png", "notBase64"}

\* Bundle with the definition file made of the state as it was received
Bundle_Wire(w, a, f) ==
  [ definition |-> w,
    assets |-> AssetIdsOf(w),
    models |-> [p \in DOMAIN f |->
                  IF f[p] = "ok" THEN AllMappings(a)[p]
                  ELSE "errorBody"] ]

\* the entity files of a deployment: the definition and the model files
Bundle(w, a, f) ==
  [ definition |-> fromSerializedStateToStorableFormat(w),
    assets |-> AssetIdsOf(w),
    models |-> [p \in DOMAIN f |->
                  IF f[p] = "ok" THEN AllMappings(a)[p]
                  ELSE "errorBody"] ]

\* lines 183-187: the five paths CONTENT_PATH fixes, none of them in the
\* models folder
DEFINITION_FILE == << "DEFINITION_FILE" >>
BUNDLED_GAME_FILE == << "BUNDLED_GAME_FILE" >>
SCENE_FILE == << "SCENE_FILE" >>
SCENE_THUMBNAIL == << "SCENE_THUMBNAIL" >>
ASSETS == << "ASSETS" >>

FixedPaths ==
  { DEFINITION_FILE, BUNDLED_GAME_FILE, SCENE_FILE, SCENE_THUMBNAIL, ASSETS }

\* lines 182-189: the Map of the entity files; the entries of the models
\* come last and replace an earlier entry of the same path
EntityFiles(w, a, f) ==
  LET models == Bundle(w, a, f).models
  IN [ p \in FixedPaths \cup DOMAIN models |->
         IF p \in DOMAIN models THEN [model |-> models[p]]
         ELSE [fixed |-> p] ]

\* lines 156 and 241: `scene-state-${sceneId}`, the key of a scene in the
\* local storage
StorageKey(sceneId) == sceneId

\* lines 234-235: the result is sent to the renderer and returned
PublishReturn(r) ==
  /\ notified' = Append(notified, r)
  /\ result' = Returned(r)
  /\ pc' = "done"

\* lines 229-232: the catch block of the deployment
PublishCatch(e) == PublishReturn(Failure(e))

\* an exception outside the try block rejects the promise of the invocation
Escape(e) ==
  /\ result' = Rejected(e)
  /\ pc' = "done"

\* lines 379-385: getIdentity throws when nobody is signed in
getIdentity == IF identity THEN "identity" ELSE "throws"

\* the operations that write to a store or to the session
WritingOperations ==
  { "publishSceneState", "saveSceneState", "saveProjectInfo",
    "createProjectWithCoords", "createProjectFromStateDefinition" }

\* an operation of the controller is invoked by the host
Invoke(o, a) ==
  /\ pc = "idle"
  /\ IF o \in WritingOperations
     THEN /\ invocations < MaxWrites
          /\ invocations' = invocations + 1
     ELSE UNCHANGED invocations
  /\ sessionBefore' = session
  /\ op' = o
  /\ args' = a

\* lines 150-163: conversion to the storable format, then the debug
\* persistence or the first request of the deployment
PublishStart(screenshot, w) ==
  /\ IF w = Malformed
     THEN /\ result' = Rejected(TypeErr("fromSerializedStateToStorableFormat"))
          /\ pc' = "done"
          /\ log' = << >>
          /\ notified' = << >>
     ELSE IF debug
     THEN /\ log' = << "saveToPersistentStorage" >>
          /\ pc' = "pub_saveDebug"
          /\ result' = NoResult
          /\ notified' = << >>
     ELSE IF screenshot = "notBase64"
     THEN /\ log' = << >>
          /\ notified' = << Failure(Err("base64ToBlob")) >>
          /\ result' = Returned(Failure(Err("base64ToBlob")))
          /\ pc' = "done"
     ELSE /\ log' = << "getConvertedAssets" >>
          /\ pc' = "pub_getAllAssets"
          /\ result' = NoResult
          /\ notified' = << >>
  /\ UNCHANGED << config, identity, stores, fetched, assets, failedAttempts, deployed >>

\* lines 142-149: publishSceneState is invoked
PublishSceneState(sceneId, title, screenshot, w) ==
  /\ Invoke("publishSceneState",
            [sceneId |-> sceneId, title |-> title, sceneState |-> w])
  /\ PublishStart(screenshot, w)
  /\ UNCHANGED << session, background >>

\* lines 155-157, 234-235: the debug persistence has resolved or rejected
PubDebugSaved(ok) ==
  /\ op = "publishSceneState"
  /\ pc = "pub_saveDebug"
  /\ IF ok
     THEN /\ persistentStorage' =
               [persistentStorage EXCEPT ![StorageKey(args.sceneId)] =
                  fromSerializedStateToStorableFormat(args.sceneState)]
          /\ PublishReturn(Ok)
     ELSE /\ Escape(Err("saveToPersistentStorage"))
          /\ UNCHANGED << persistentStorage, notified >>
  /\ UNCHANGED << config, identity, builderServer, session, op, args, fetched, assets, failedAttempts,
                  log, deployed, invocations, sessionBefore,
                  background >>

\* getConvertedAssets: the descriptors of the requested ids the backend
\* knows, in the order of the request; an id it does not know has none
Resolved(ids, known) == SelectSeq(ids, LAMBDA a : a \in known)

\* lines 163-165: the asset metadata has arrived (or not); `known` are the
\* asset ids the backend has a descriptor for
PubGotAllAssets(ok, known) ==
  /\ op = "publishSceneState"
  /\ pc = "pub_getAllAssets"
  /\ IF ok
     THEN /\ assets' = Resolved(AssetIdsOf(args.sceneState), known)
          /\ log' = Append(log, "getBuilderAssets")
          /\ pc' = "pub_getAllBuilderAssets"
          /\ UNCHANGED << result, notified >>
     ELSE /\ PublishCatch(Err("getConvertedAssets"))
          /\ UNCHANGED << log, assets, failedAttempts >>
  /\ UNCHANGED << config, identity, stores, session, op, args, fetched, failedAttempts,
                  deployed, invocations, sessionBefore,
                  background >>

\* lines 165-168, 406-427: the builder assets have arrived; every asset
\* file is requested at once
PubGotBuilderAssets(ok) ==
  /\ op = "publishSceneState"
  /\ pc = "pub_getAllBuilderAssets"
  /\ IF ok
     THEN /\ log' = Append(log, "downloadAssetFiles")
          /\ fetched' = [p \in DOMAIN AllMappings(assets) |-> "pending"]
          /\ pc' = "pub_download"
          /\ UNCHANGED << result, notified >>
     ELSE /\ PublishCatch(Err("getBuilderAssets"))
          /\ UNCHANGED << log, fetched, failedAttempts >>
  /\ UNCHANGED << config, identity, stores, session, op, args, assets, failedAttempts,
                  deployed, invocations, sessionBefore,
                  background >>

FetchOutcomes == {"ok", "errorResponse", "transportError"}

\* lines 419-424: what one download leaves in the models map.  fetch()
\* rejects on a transport error only; the response of the asset server is
\* read as the file's bytes whatever its status
FetchSettled(outcome) ==
  IF outcome = "transportError" THEN "rejected" ELSE "resolved"

\* lines 418-427: one download settles, after the one attempt of line 419;
\* the first rejection rejects Promise.all and the deployment is abandoned
PubFetchDone(p, outcome) ==
  /\ op = "publishSceneState"
  /\ pc = "pub_download"
  /\ p \in DOMAIN fetched
  /\ fetched[p] = "pending"
  /\ fetched' = [fetched EXCEPT ![p] = outcome]
  /\ IF FetchSettled(outcome) = "rejected"
     THEN /\ PublishCatch(TypeErr("fetch"))
          /\ failedAttempts' = failedAttempts + 1
     ELSE UNCHANGED << pc, result, notified, failedAttempts >>
  /\ UNCHANGED << config, identity, stores, session, op, args, assets, log,
                  deployed, invocations, sessionBefore,
                  background >>

\* lines 427-428, 170-186: every download has resolved; the game file and
\* scene.json are prepared and the thumbnail is read
PubDownloaded ==
  /\ op = "publishSceneState"
  /\ pc = "pub_download"
  /\ \A p \in DOMAIN fetched : fetched[p] # "pending"
  /\ sceneJsonDisplay' = [title |-> args.title,
                          navmapThumbnail |-> "scene-thumbnail.png"]
  /\ log' = Append(log, "blobToBuffer")
  /\ pc' = "pub_thumbnail"
  /\ UNCHANGED << config, identity, stores, builderManifest, op, args, fetched, assets, failedAttempts,
                  result, notified, deployed, invocations, sessionBefore,
                  background >>

\* lines 182-213: the bundle is grouped and the entity is built; the
\* metadata reads this.builderManifest.project.id
PubThumbnailRead(ok) ==
  /\ op = "publishSceneState"
  /\ pc = "pub_thumbnail"
  /\ IF ~ok
     THEN /\ PublishCatch(Err("blobToBuffer"))
          /\ UNCHANGED log
     ELSE IF builderManifest = Undefined
     THEN /\ PublishCatch(TypeErr("builderManifest"))
          /\ UNCHANGED log
     ELSE /\ log' = Append(log, "buildEntity")
          /\ pc' = "pub_buildEntity"
          /\ UNCHANGED << result, notified >>
  /\ UNCHANGED << config, identity, stores, session, op, args, fetched, assets, failedAttempts,
                  deployed, invocations, sessionBefore,
                  background >>

\* PubEntityBuilt without the check of lines 216-219: the entity is signed
\* and deployed whether or not somebody is signed in
PubEntityBuilt_Unchecked(ok) ==
  /\ op = "publishSceneState"
  /\ pc = "pub_buildEntity"
  /\ IF ~ok
     THEN /\ PublishCatch(Err("buildEntity"))
          /\ UNCHANGED log
     ELSE /\ log' = log \o << "signPayload", "deployEntity" >>
          /\ pc' = "pub_deploy"
          /\ UNCHANGED << result, notified >>
  /\ UNCHANGED << config, identity, stores, session, op, args, fetched, assets, failedAttempts,
                  deployed, invocations, sessionBefore,
                  background >>

\* lines 215-222: the entity id is signed with the current identity and
\* the entity is deployed
PubEntityBuilt(ok) ==
  /\ op = "publishSceneState"
  /\ pc = "pub_buildEntity"
  /\ IF ~ok
     THEN /\ PublishCatch(Err("buildEntity"))
          /\ UNCHANGED log
     ELSE IF ~identity
     THEN /\ PublishCatch(IdentityError)
          /\ UNCHANGED log
     ELSE /\ log' = log \o << "signPayload", "deployEntity" >>
          /\ pc' = "pub_deploy"
          /\ UNCHANGED << result, notified >>
  /\ UNCHANGED << config, identity, stores, session, op, args, fetched, assets, failedAttempts,
                  deployed, invocations, sessionBefore,
                  background >>

\* PubDeployed with a retry: a rejected deployment is sent once more
PubDeployed_Retried(ok) ==
  /\ op = "publishSceneState"
  /\ pc = "pub_deploy"
  /\ IF ok
     THEN /\ deployed' = Append(deployed, Bundle(args.sceneState, assets, fetched))
          /\ builderManifest' =
               [builderManifest EXCEPT !.creation_coords = Undefined]
          /\ log' = Append(log, "toBuilderFromStateDefinitionFormat")
          /\ pc' = "upd_convert"
          /\ UNCHANGED << result, notified >>
     ELSE IF log[Len(log) - 1] # "deployEntity"
     THEN /\ log' = Append(log, "deployEntity")
          /\ UNCHANGED << pc, result, notified, deployed, builderManifest >>
     ELSE /\ PublishCatch(Err("deployEntity"))
          /\ UNCHANGED << deployed, builderManifest, log >>
  /\ UNCHANGED << config, identity, stores, sceneJsonDisplay, op, args,
                  fetched, assets, failedAttempts, invocations, sessionBefore,
                  background >>

\* PubDeployed going on after a failure: the project details are updated
\* whether or not the deployment has succeeded
PubDeployed_Regardless(ok) ==
  /\ op = "publishSceneState"
  /\ pc = "pub_deploy"
  /\ deployed' = IF ok THEN Append(deployed, Bundle(args.sceneState, assets, fetched))
                 ELSE deployed
  /\ builderManifest' = [builderManifest EXCEPT !.creation_coords = Undefined]
  /\ log' = Append(log, "toBuilderFromStateDefinitionFormat")
  /\ pc' = "upd_convert"
  /\ UNCHANGED << result, notified >>
  /\ UNCHANGED << config, identity, stores, sceneJsonDisplay, op, args,
                  fetched, assets, failedAttempts, invocations, sessionBefore,
                  background >>

\* lines 222-226, 437-446: the deployment has resolved or rejected; then
\* the project is unlinked from its coordinates and its details updated
PubDeployed(ok) ==
  /\ op = "publishSceneState"
  /\ pc = "pub_deploy"
  /\ IF ok
     THEN /\ deployed' = Append(deployed, Bundle(args.sceneState, assets, fetched))
          /\ builderManifest' =
               [builderManifest EXCEPT !.creation_coords = Undefined]
          /\ log' = Append(log, "toBuilderFromStateDefinitionFormat")
          /\ pc' = "upd_convert"
          /\ UNCHANGED << result, notified >>
     ELSE /\ PublishCatch(Err("deployEntity"))
          /\ UNCHANGED << deployed, builderManifest, log >>
  /\ UNCHANGED << config, identity, stores, sceneJsonDisplay, op, args,
                  fetched, assets, failedAttempts, invocations, sessionBefore,
                  background >>


(***************************************************************************)
(* updateProjectDetails (publishSceneState and saveProjectInfo)            *)
(***************************************************************************)
\* toBuilderFromStateDefinitionFormat: the manifest with the scene replaced
ToBuilderManifest(w, m) == [m EXCEPT !.scene = GraphOf(w.entities)]

\* lines 229-235 and 134-137: a failure of updateProjectDetails is caught
\* by the operation that called it
UpdFail(e) ==
  IF op = "publishSceneState"
  THEN PublishCatch(e)
  ELSE /\ result' = ReturnedFlag(FALSE)
       /\ pc' = "done"
       /\ UNCHANGED notified

\* lines 228, 234-235 and 133, 139: updateProjectDetails has returned
UpdDone ==
  IF op = "publishSceneState"
  THEN PublishReturn(Ok)
  ELSE /\ result' = ReturnedFlag(TRUE)
       /\ pc' = "done"
       /\ UNCHANGED notified

\* lines 441-453: the manifest is converted, titled and sent
UpdConverted(ok) ==
  /\ op \in {"publishSceneState", "saveProjectInfo"}
  /\ pc = "upd_convert"
  /\ IF ~ok \/ builderManifest = Undefined
     THEN /\ UpdFail(Err("toBuilderFromStateDefinitionFormat"))
          /\ UNCHANGED log
     ELSE IF getIdentity = "throws"
     THEN /\ UpdFail(IdentityError)
          /\ UNCHANGED log
     ELSE /\ log' = Append(log, "updateProjectManifest")
          /\ pc' = "upd_manifest"
          /\ UNCHANGED << result, notified >>
  /\ UNCHANGED << config, identity, stores, session, op, args, fetched, assets, failedAttempts,
                  deployed, invocations, sessionBefore,
                  background >>

\* lines 453-456: the manifest is stored; the thumbnail is sent
UpdManifestUpdated(ok) ==
  /\ op \in {"publishSceneState", "saveProjectInfo"}
  /\ pc = "upd_manifest"
  /\ IF ~ok
     THEN /\ UpdFail(Err("updateProjectManifest"))
          /\ UNCHANGED << log, builderServer >>
     ELSE /\ builderServer' =
               [ToBuilderManifest(args.sceneState, builderManifest)
                  EXCEPT !.title = args.title]
          /\ IF getIdentity = "throws"
             THEN /\ UpdFail(IdentityError)
                  /\ UNCHANGED log
             ELSE /\ log' = Append(log, "updateProjectThumbnail")
                  /\ pc' = "upd_thumbnail"
                  /\ UNCHANGED << result, notified >>
  /\ UNCHANGED << config, identity, persistentStorage, session, op, args,
                  fetched, assets, failedAttempts, deployed, invocations, sessionBefore,
                  background >>

\* lines 456-457: the thumbnail is stored
UpdThumbnailUpdated(ok) ==
  /\ op \in {"publishSceneState", "saveProjectInfo"}
  /\ pc = "upd_thumbnail"
  /\ IF ok THEN UpdDone ELSE UpdFail(Err("updateProjectThumbnail"))
  /\ UNCHANGED << config, identity, stores, session, op, args, fetched, assets, failedAttempts, log,
                  deployed, invocations, sessionBefore,
                  background >>

(***************************************************************************)
(* getProjectManifest, getProjectManifestByCoordinates,                    *)
(* createProjectWithCoords                                                 *)
(***************************************************************************)
\* fromBuildertoStateDefinitionFormat and serializeSceneState
ManifestToState(m) == fromStorableFormatToSerializedState([graph |-> m.scene])

ManifestResponses == {"rejected", "nothing", "manifest"}

\* lines 58-60 and 71-73: the manifest is requested with the identity
GetProjectManifest(o) ==
  /\ o \in {"getProjectManifest", "getProjectManifestByCoordinates"}
  /\ Invoke(o, Undefined)
  /\ IF getIdentity = "throws"
     THEN /\ Escape(IdentityError)
          /\ UNCHANGED log
     ELSE /\ log' = Append(log, "getBuilderManifest")
          /\ pc' = "gpm_fetch"
          /\ UNCHANGED result
  /\ UNCHANGED << config, identity, stores, session, fetched, assets, failedAttempts, notified,
                  deployed, background >>

\* lines 62-69 and 74-84: the manifest, or nothing, has arrived
GpmFetched(resp) ==
  /\ op \in {"getProjectManifest", "getProjectManifestByCoordinates"}
  /\ pc = "gpm_fetch"
  /\ CASE resp = "rejected" ->
            /\ Escape(Err("getBuilderManifest"))
            /\ UNCHANGED << log, builderManifest >>
       [] resp = "nothing" ->
            /\ result' = ReturnedNothing
            /\ pc' = "done"
            /\ UNCHANGED << log, builderManifest >>
       [] resp = "manifest" ->
            /\ log' = Append(log, "SendBuilderProjectInfo")
            /\ builderManifest' = builderServer
            /\ result' = ReturnedState(ManifestToState(builderServer))
            /\ pc' = "done"
  /\ UNCHANGED << config, identity, stores, sceneJsonDisplay, op, args,
                  fetched, assets, failedAttempts, notified, deployed, invocations, sessionBefore, background >>

\* lines 87-89: the project is requested with the identity
CreateProjectWithCoords(coords) ==
  /\ Invoke("createProjectWithCoords", [coords |-> coords])
  /\ IF getIdentity = "throws"
     THEN /\ Escape(IdentityError)
          /\ UNCHANGED log
     ELSE /\ log' = Append(log, "createProjectWithCoords")
          /\ pc' = "cpc_create"
          /\ UNCHANGED result
  /\ UNCHANGED << config, identity, stores, session, fetched, assets, failedAttempts, notified,
                  deployed, background >>

\* lines 89-93: the new project, or nothing, has arrived
CpcCreated(resp) ==
  /\ op = "createProjectWithCoords"
  /\ pc = "cpc_create"
  /\ CASE resp = "rejected" ->
            /\ Escape(Err("createProjectWithCoords"))
            /\ UNCHANGED << log, builderManifest, builderServer >>
       [] resp = "nothing" ->
            /\ Escape(TypeErr("newProject"))
            /\ UNCHANGED << log, builderManifest, builderServer >>
       [] resp = "manifest" ->
            /\ builderServer' = NewProject(args.coords)
            /\ log' = Append(log, "SendBuilderProjectInfo")
            /\ builderManifest' = NewProject(args.coords)
            /\ result' = ReturnedFlag(TRUE)
            /\ pc' = "done"
  /\ UNCHANGED << config, identity, persistentStorage, sceneJsonDisplay, op,
                  args, fetched, assets, failedAttempts, notified, deployed, invocations, sessionBefore, background >>

(***************************************************************************)
(* saveSceneState, saveProjectInfo                                         *)
(***************************************************************************)
\* lines 96-110: the state is deserialized and converted to a manifest
SaveSceneState(w) ==
  /\ Invoke("saveSceneState", [sceneState |-> w])
  /\ IF w = Malformed
     THEN /\ result' = Returned(Failure(TypeErr("deserializeSceneState")))
          /\ pc' = "done"
          /\ UNCHANGED log
     ELSE /\ log' = Append(log, "toBuilderFromStateDefinitionFormat")
          /\ pc' = "save_convert"
          /\ UNCHANGED result
  /\ UNCHANGED << config, identity, stores, session, fetched, assets, failedAttempts, notified,
                  deployed, background >>

\* SaveConverted without getIdentity: the manifest is sent unsigned
SaveConverted_Unsigned(ok) ==
  /\ op = "saveSceneState"
  /\ pc = "save_convert"
  /\ IF ~ok \/ builderManifest = Undefined
     THEN /\ result' = Returned(Failure(Err("toBuilderFromStateDefinitionFormat")))
          /\ pc' = "done"
          /\ UNCHANGED log
     ELSE /\ log' = Append(log, "updateProjectManifest")
          /\ pc' = "save_manifest"
          /\ UNCHANGED result
  /\ UNCHANGED << config, identity, stores, session, op, args, fetched, assets, failedAttempts,
                  notified, deployed, invocations, sessionBefore, background >>

\* lines 105-113: the manifest is sent with the identity
SaveConverted(ok) ==
  /\ op = "saveSceneState"
  /\ pc = "save_convert"
  /\ IF ~ok \/ builderManifest = Undefined
     THEN /\ result' = Returned(Failure(Err("toBuilderFromStateDefinitionFormat")))
          /\ pc' = "done"
          /\ UNCHANGED log
     ELSE IF getIdentity = "throws"
     THEN /\ result' = Returned(Failure(IdentityError))
          /\ pc' = "done"
          /\ UNCHANGED log
     ELSE /\ log' = Append(log, "updateProjectManifest")
          /\ pc' = "save_manifest"
          /\ UNCHANGED result
  /\ UNCHANGED << config, identity, stores, session, op, args, fetched, assets, failedAttempts,
                  notified, deployed, invocations, sessionBefore, background >>

\* SaveManifestUpdated storing the state where getStoredState reads it in
\* debug mode
SaveManifestUpdated_Stored(ok) ==
  /\ op = "saveSceneState"
  /\ pc = "save_manifest"
  /\ IF ok
     THEN /\ result' = Returned(Ok)
          /\ builderServer' = ToBuilderManifest(args.sceneState, builderManifest)
          /\ persistentStorage' =
               [persistentStorage EXCEPT ![StorageKey(Cid)] =
                  fromSerializedStateToStorableFormat(args.sceneState)]
          /\ lastSaved' = fromSerializedStateToStorableFormat(args.sceneState)
     ELSE /\ result' = Returned(Failure(Err("updateProjectManifest")))
          /\ UNCHANGED << builderServer, persistentStorage, lastSaved >>
  /\ pc' = "done"
  /\ UNCHANGED << config, identity, session, op, args,
                  fetched, assets, failedAttempts, log, notified, deployed, invocations, sessionBefore, spawned,
                  bgManifest >>

\* lines 113-119: the manifest update has resolved or rejected
SaveManifestUpdated(ok) ==
  /\ op = "saveSceneState"
  /\ pc = "save_manifest"
  /\ IF ok
     THEN /\ result' = Returned(Ok)
          /\ builderServer' = ToBuilderManifest(args.sceneState, builderManifest)
          /\ lastSaved' = fromSerializedStateToStorableFormat(args.sceneState)
     ELSE /\ result' = Returned(Failure(Err("updateProjectManifest")))
          /\ UNCHANGED << builderServer, lastSaved >>
  /\ pc' = "done"
  /\ UNCHANGED << config, identity, persistentStorage, session, op, args,
                  fetched, assets, failedAttempts, log, notified, deployed, invocations, sessionBefore, spawned,
                  bgManifest >>

\* lines 122-132, 437-446: the thumbnail is decoded, the state deserialized
\* and converted to a manifest
SaveProjectInfo(w, title, screenshot) ==
  /\ Invoke("saveProjectInfo", [title |-> title, sceneState |-> w])
  /\ IF screenshot = "notBase64" \/ w = Malformed
     THEN /\ result' = ReturnedFlag(FALSE)
          /\ pc' = "done"
          /\ UNCHANGED log
     ELSE /\ log' = Append(log, "toBuilderFromStateDefinitionFormat")
          /\ pc' = "upd_convert"
          /\ UNCHANGED result
  /\ UNCHANGED << config, identity, stores, session, fetched, assets, failedAttempts, notified,
                  deployed, background >>

(***************************************************************************)
(* getStoredState, createProjectFromStateDefinition, sendAssetsToRenderer  *)
(***************************************************************************)
\* lines 288-290 and 336-338: the deployed land has an assets file and a
\* thumbnail when it was deployed with a definition
HasDeployedFiles == contentServer # NoDefinitionFile

\* lines 283-311: getStoredState has returned to
\* createProjectFromStateDefinition, which goes on when there is a state
\* and an identity
CreateProjectContinue(v) ==
  IF v = ReturnedNothing \/ getIdentity = "throws"
  THEN /\ result' = ReturnedNothing
       /\ pc' = "done"
       /\ UNCHANGED << log, args >>
  ELSE /\ args' = [sceneState |-> v.state]
       /\ UNCHANGED result
       /\ IF HasDeployedFiles
          THEN /\ log' = Append(log, "downloadContent")
               /\ pc' = "cp_assets"
          ELSE /\ log' = Append(log, "builderManifestFromSerializedState")
               /\ pc' = "cp_manifest"

\* getStoredState returns v, to the host or to
\* createProjectFromStateDefinition
StoredStateReturn(v) ==
  IF op = "getStoredState"
  THEN /\ result' = v
       /\ pc' = "done"
       /\ UNCHANGED << log, args >>
  ELSE CreateProjectContinue(v)

\* getStoredState rejects: the host gets the rejection,
\* createProjectFromStateDefinition catches it (lines 357-359)
StoredStateReject(e) ==
  /\ IF op = "getStoredState" THEN Escape(e)
     ELSE /\ result' = ReturnedNothing
          /\ pc' = "done"
  /\ UNCHANGED << log, args >>

\* lines 238-253: the local storage is read in debug mode, the deployed
\* entity is fetched otherwise
StoredStateStart ==
  IF debug
  THEN /\ log' = Append(log, "getFromPersistentStorage")
       /\ pc' = "gss_storage"
  ELSE /\ log' = Append(log, "fetchEntityById")
       /\ pc' = "gss_entity"

\* lines 238-239: getStoredState is invoked
GetStoredState(sceneId) ==
  /\ Invoke("getStoredState", [sceneId |-> sceneId])
  /\ StoredStateStart
  /\ UNCHANGED << config, identity, stores, session, fetched, assets, failedAttempts, result,
                  notified, deployed, background >>

\* GssStorageRead with the key of the land's scene for the key of sceneId
GssStorageRead_LandKey(ok) ==
  /\ op \in {"getStoredState", "createProjectFromStateDefinition"}
  /\ pc = "gss_storage"
  /\ IF ~ok
     THEN StoredStateReject(Err("getFromPersistentStorage"))
     ELSE IF persistentStorage[StorageKey(Cid)] # Undefined
     THEN StoredStateReturn(ReturnedState(
            fromStorableFormatToSerializedState(
              persistentStorage[StorageKey(Cid)])))
     ELSE StoredStateReturn(ReturnedNothing)
  /\ UNCHANGED << config, identity, stores, session, op, fetched, assets, failedAttempts, notified,
                  deployed, invocations, sessionBefore, background >>

\* lines 241-247: the local storage has answered
GssStorageRead(ok) ==
  /\ op \in {"getStoredState", "createProjectFromStateDefinition"}
  /\ pc = "gss_storage"
  /\ IF ~ok
     THEN StoredStateReject(Err("getFromPersistentStorage"))
     ELSE IF persistentStorage[StorageKey(args.sceneId)] # Undefined
     THEN StoredStateReturn(ReturnedState(
            fromStorableFormatToSerializedState(
              persistentStorage[StorageKey(args.sceneId)])))
     ELSE StoredStateReturn(ReturnedNothing)
  /\ UNCHANGED << config, identity, stores, session, op, fetched, assets, failedAttempts, notified,
                  deployed, invocations, sessionBefore, background >>

\* lines 252 and 260: { attempts: 3 }, the budget of a read of the content
\* server
ATTEMPTS == 3

\* one more attempt of the read in progress has failed; the count is kept
\* when getStoredState ends with it
ReadFailed ==
  failedAttempts' =
    IF op = "getStoredState" THEN failedAttempts + 1 ELSE 0

\* the content client repeats the read while the budget lasts
ReadRetried ==
  /\ failedAttempts' = failedAttempts + 1
  /\ UNCHANGED << pc, result, log, args >>

\* lines 253-270: an attempt to fetch the entity has succeeded or failed
GssEntityFetched(ok) ==
  /\ op \in {"getStoredState", "createProjectFromStateDefinition"}
  /\ pc = "gss_entity"
  /\ IF ok /\ contentServer # NoDefinitionFile
     THEN /\ log' = Append(log, "downloadContent")
          /\ pc' = "gss_download"
          /\ failedAttempts' = 0
          /\ UNCHANGED << result, args >>
     ELSE IF ok
     THEN /\ StoredStateReturn(ReturnedNothing)
          /\ failedAttempts' = 0
     ELSE IF failedAttempts + 1 < ATTEMPTS
     THEN ReadRetried
     ELSE /\ StoredStateReturn(ReturnedNothing)
          /\ ReadFailed
  /\ UNCHANGED << config, identity, stores, session, op, fetched, assets, notified,
                  deployed, invocations, sessionBefore, background >>

\* lines 260-270: an attempt to download the definition file has succeeded
\* or failed
GssDownloaded(ok) ==
  /\ op \in {"getStoredState", "createProjectFromStateDefinition"}
  /\ pc = "gss_download"
  /\ IF ok
     THEN /\ StoredStateReturn(ReturnedState(
               fromStorableFormatToSerializedState(contentServer)))
          /\ failedAttempts' = 0
     ELSE IF failedAttempts + 1 < ATTEMPTS
     THEN ReadRetried
     ELSE /\ StoredStateReturn(ReturnedNothing)
          /\ ReadFailed
  /\ UNCHANGED << config, identity, stores, session, op, fetched, assets, notified,
                  deployed, invocations, sessionBefore, background >>

\* lines 273-283: createProjectFromStateDefinition asks for the stored
\* state of the land's scene
CreateProjectFromStateDefinition ==
  /\ Invoke("createProjectFromStateDefinition", [sceneId |-> Cid])
  /\ StoredStateStart
  /\ UNCHANGED << config, identity, stores, session, fetched, assets, failedAttempts, result,
                  notified, deployed, background >>

\* lines 292-311: the assets file has arrived and its assets are added
CpAssetsDownloaded(ok) ==
  /\ op = "createProjectFromStateDefinition"
  /\ pc = "cp_assets"
  /\ IF ok
     THEN /\ log' = Append(log, "builderManifestFromSerializedState")
          /\ pc' = "cp_manifest"
          /\ UNCHANGED result
     ELSE /\ result' = ReturnedNothing
          /\ pc' = "done"
          /\ UNCHANGED log
  /\ UNCHANGED << config, identity, stores, session, op, args, fetched, assets, failedAttempts,
                  notified, deployed, invocations, sessionBefore, background >>

\* builderManifestFromSerializedState: a new project of the land's scene
ManifestFromState(w, display) ==
  [ id |-> "p3", creation_coords |-> [coords |-> "0,0"],
    title |-> IF display = Undefined THEN "untitled" ELSE display.title,
    scene |-> GraphOf(w.entities) ]

\* lines 345-354: the publish is started and not awaited; the state is
\* returned
StartPublish(m) ==
  /\ spawned' = [pending |-> [sceneId |-> Cid, title |-> m.title,
                              sceneState |-> args.sceneState]]
  /\ result' = ReturnedState(args.sceneState)
  /\ pc' = "done"

\* lines 313-343: the manifest is built; its update is sent and not
\* awaited; the thumbnail is downloaded
CpManifestBuilt(resp) ==
  /\ op = "createProjectFromStateDefinition"
  /\ pc = "cp_manifest"
  /\ IF resp = "manifest"
     THEN LET m == ManifestFromState(args.sceneState, sceneJsonDisplay)
          IN /\ builderManifest' = m
             /\ bgManifest' = m
             /\ IF HasDeployedFiles
                THEN /\ log' = log \o << "SendBuilderProjectInfo",
                                        "updateProjectManifest",
                                        "downloadContent" >>
                     /\ pc' = "cp_thumbnail"
                     /\ UNCHANGED << result, spawned >>
                ELSE /\ log' = log \o << "SendBuilderProjectInfo",
                                        "updateProjectManifest" >>
                     /\ StartPublish(m)
     ELSE /\ result' = ReturnedNothing
          /\ pc' = "done"
          /\ UNCHANGED << log, builderManifest, spawned, bgManifest >>
  /\ UNCHANGED << config, identity, stores, sceneJsonDisplay, op, args,
                  fetched, assets, failedAttempts, notified, deployed, invocations, sessionBefore, lastSaved >>

\* lines 341-354: the thumbnail has arrived
CpThumbnailDownloaded(ok) ==
  /\ op = "createProjectFromStateDefinition"
  /\ pc = "cp_thumbnail"
  /\ IF ok
     THEN StartPublish(builderManifest)
     ELSE /\ result' = ReturnedNothing
          /\ pc' = "done"
          /\ UNCHANGED spawned
  /\ UNCHANGED << config, identity, stores, session, op, args, fetched, assets, failedAttempts, log,
                  notified, deployed, invocations, sessionBefore, bgManifest, lastSaved >>

\* lines 346-352, 142-163: the publish createProjectFromStateDefinition has
\* started runs; its result goes to nobody
SpawnedPublish ==
  /\ pc = "done"
  /\ "pending" \in DOMAIN spawned
  /\ op' = "publishSceneState"
  /\ args' = spawned.pending
  /\ spawned' = [running |-> TRUE]
  /\ PublishStart("png", spawned.pending.sceneState)
  /\ UNCHANGED << session, bgManifest, lastSaved, invocations, sessionBefore >>

\* lines 331-333: the manifest update createProjectFromStateDefinition has
\* sent resolves or rejects
BgManifestUpdated(ok) ==
  /\ bgManifest # Undefined
  /\ bgManifest' = Undefined
  /\ builderServer' = IF ok THEN bgManifest ELSE builderServer
  /\ UNCHANGED << config, identity, persistentStorage, session, op, pc, args,
                  fetched, assets, failedAttempts, result, log, notified, deployed, spawned,
                  lastSaved, invocations, sessionBefore >>

\* lines 362-364, 369-377: the assets of the state are requested
SendAssetsToRenderer(w) ==
  /\ Invoke("sendAssetsToRenderer",
            IF w = Malformed THEN Undefined
            ELSE [sceneState |-> w, assetIds |-> AssetIdsOf(w)])
  /\ IF w = Malformed
     THEN /\ Escape(TypeErr("getAllBuilderAssets"))
          /\ UNCHANGED log
     ELSE /\ log' = Append(log, "getBuilderAssets")
          /\ pc' = "sar_assets"
          /\ UNCHANGED result
  /\ UNCHANGED << config, identity, stores, session, fetched, assets, failedAttempts, notified,
                  deployed, background >>

\* getUnityInstance().SendSceneAssets(assets)
SendSceneAssets(a) == [method |-> "SendSceneAssets", assets |-> a]

\* SarAssetsFetched giving up when an asset id has no descriptor
SarAssetsFetched_Strict(ok, known) ==
  /\ op = "sendAssetsToRenderer"
  /\ pc = "sar_assets"
  /\ IF ok /\ Resolved(args.assetIds, known) = args.assetIds
     THEN /\ assets' = Resolved(args.assetIds, known)
          /\ notified' = Append(notified, SendSceneAssets(assets'))
          /\ log' = Append(log, "SendSceneAssets")
          /\ result' = ReturnedAck
          /\ pc' = "done"
     ELSE /\ Escape(IF ok THEN Err("asset not found")
                   ELSE Err("getBuilderAssets"))
          /\ UNCHANGED << log, assets, failedAttempts, notified >>
  /\ UNCHANGED << config, identity, stores, session, op, args, fetched, failedAttempts,
                  deployed, invocations, sessionBefore, background >>

\* lines 364-367: the descriptors the backend has resolved are sent to the
\* renderer; `known` are the asset ids the backend has a descriptor for
SarAssetsFetched(ok, known) ==
  /\ op = "sendAssetsToRenderer"
  /\ pc = "sar_assets"
  /\ IF ok
     THEN /\ assets' = Resolved(args.assetIds, known)
          /\ notified' = Append(notified, SendSceneAssets(assets'))
          /\ log' = Append(log, "SendSceneAssets")
          /\ result' = ReturnedAck
          /\ pc' = "done"
     ELSE /\ Escape(Err("getBuilderAssets"))
          /\ UNCHANGED << log, assets, failedAttempts, notified >>
  /\ UNCHANGED << config, identity, stores, session, op, args, fetched, failedAttempts,
                  deployed, invocations, sessionBefore, background >>

(***************************************************************************)
(* The session                                                             *)
(***************************************************************************)
\* the user signs in or out between two operations
SessionChange ==
  /\ pc = "idle"
  /\ identity' = ~identity
  /\ UNCHANGED << config, stores, session, op, pc, args, fetched, assets, failedAttempts, result, log,
                  notified, deployed, invocations, sessionBefore,
                  background >>

\* the caller has the result of the operation; the next one may be invoked
Return ==
  /\ pc = "done"
  /\ "pending" \notin DOMAIN spawned
  /\ spawned' = Undefined
  /\ pc' = "idle"
  /\ op' = "none"
  /\ args' = Undefined
  /\ fetched' = << >>
  /\ assets' = << >>
  /\ failedAttempts' = 0
  /\ result' = NoResult
  /\ log' = << >>
  /\ notified' = << >>
  /\ deployed' = << >>
  /\ sessionBefore' = << >>
  /\ UNCHANGED << config, identity, stores, session, invocations,
                  bgManifest, lastSaved >>

(***************************************************************************)
(* StatefulWebWorkerScene: the scene session                               *)
(***************************************************************************)
\* number of change events the renderer sends in one session
MaxPulls == 2
\* number of state events the renderer sends in one session
MaxEvents == 2

VARIABLES
  sysPc,           \* position of systemDidEnable: the await it is suspended at
  sceneDefinition, \* this.sceneDefinition: (entity, type) -> value
  initialState,    \* history: the state the editor backend has returned
  rendererInbox,   \* messages sent to the renderer, in order
  forwarding,      \* rendererActor.forwardChangesTo has subscribed
  listening,       \* listenToEvents has subscribed
  pulls,           \* change events the renderer has sent
  accepted,        \* history: for each applied change event, whether
                   \* "initialization finished" had been sent before
  isEmpty,         \* const isEmpty: the answer of getIsEmpty
  lastChange,      \* history: the last change event delivered to the handlers,
                   \* and whether the one before it was the same
  mutationError,   \* what the last change event was rejected with
  events,          \* history: the types of the state events sent so far
  calls,           \* the calls made to the SceneStateStorageController
  settled,         \* how many of them have resolved or rejected
  logged,          \* this.error: the contexts of the errors logged
  sysError         \* the error systemDidEnable has rejected with

sceneVars ==
  << sysPc, sceneDefinition, initialState, rendererInbox, forwarding,
     listening, pulls, accepted, isEmpty, lastChange, mutationError,
     events, calls, settled, logged, sysError >>

InitFinished == [method |-> "InitMessagesFinished"]
Update(k, v) == [method |-> "UpdateEntityComponent", key |-> k, value |-> v]

Keys == { Key(c) : c \in Components } \cup { <<"E2", TRANSFORM>> }
Values == AssetIds \cup {""}
\* the value of a change event that removes the component
Removed == "removed"

Graphs == { GraphOf(w.entities) : w \in WellFormed }

\* SceneStateDefinition.sendStateTo: one message per component, in key order
SendStateTo(g) ==
  LET keys == SelectSeq(KeyOrder, LAMBDA k : k \in DOMAIN g)
  IN [i \in 1..Len(keys) |-> Update(keys[i], g[keys[i]])]

\* the component types of the kernel
ComponentTypes == { k[2] : k \in Keys }
\* a component type no kernel enumeration has, and a payload that is no
\* component value
UnknownKey == << "E1", "UNKNOWN" >>
MalformedValue == "malformed"
MalformedMutation == [name |-> "MalformedMutation"]

WellTyped(k, v) == k[2] \in ComponentTypes /\ v \in Values \cup {Removed}

\* ApplyChange removing a component that exists, whatever the value
ApplyChange_Toggle(g, k, v) ==
  IF v = Removed \/ k \in DOMAIN g
  THEN [x \in (DOMAIN g) \ {k} |-> g[x]]
  ELSE [x \in (DOMAIN g) \cup {k} |-> IF x = k THEN v ELSE g[x]]

\* ApplyChange keeping the component an entity already has
ApplyChange_FirstWins(g, k, v) ==
  IF v = Removed
  THEN [x \in (DOMAIN g) \ {k} |-> g[x]]
  ELSE [x \in (DOMAIN g) \cup {k} |-> IF x \in DOMAIN g THEN g[x] ELSE v]

\* ApplyChange creating the entity anew for the component it is given
ApplyChange_Renew(g, k, v) ==
  IF v = Removed
  THEN [x \in (DOMAIN g) \ {k} |-> g[x]]
  ELSE [x \in { y \in DOMAIN g : y[1] # k[1] } \cup {k} |->
          IF x = k THEN v ELSE g[x]]

\* the change a renderer event makes to the scene definition
ApplyChange(g, k, v) ==
  IF v = Removed
  THEN [x \in (DOMAIN g) \ {k} |-> g[x]]
  ELSE [x \in (DOMAIN g) \cup {k} |-> IF x = k THEN v ELSE g[x]]

\* Mutate applying whatever it is given
Mutate_Unchecked(g, k, v) ==
  [graph |-> ApplyChange(g, k, v), error |-> Undefined]

\* applyChange: a well-typed change is applied; any other is rejected and
\* the graph left as it was
Mutate(g, k, v) ==
  IF WellTyped(k, v)
  THEN [graph |-> ApplyChange(g, k, v), error |-> Undefined]
  ELSE [graph |-> g, error |-> MalformedMutation]

SceneInit ==
  /\ sysPc = "start"
  /\ sceneDefinition = Undefined
  /\ initialState = Undefined
  /\ rendererInbox = << >>
  /\ forwarding = FALSE
  /\ listening = FALSE
  /\ pulls = 0
  /\ accepted = << >>
  /\ isEmpty = "unknown"
  /\ lastChange = Undefined
  /\ mutationError = Undefined
  /\ events = << >>
  /\ calls = << >>
  /\ settled = 0
  /\ logged = << >>
  /\ sysError = Undefined

\* lines 45-47: systemDidEnable asks for the parcel
SystemDidEnable ==
  /\ sysPc = "start"
  /\ sysPc' = "getParcel"
  /\ UNCHANGED << sceneDefinition, initialState, rendererInbox, forwarding,
                  listening, pulls, events, calls, settled, logged, lastChange, mutationError, accepted, isEmpty, sysError >>

\* lines 47-52: the actors are created; the parcel is asked whether it is
\* empty
SysGotParcel(ok) ==
  /\ sysPc = "getParcel"
  /\ sysPc' = IF ok THEN "getIsEmpty" ELSE "rejected"
  /\ sysError' = IF ok THEN sysError ELSE Err("getParcel")
  /\ UNCHANGED << sceneDefinition, initialState, rendererInbox, forwarding,
                  listening, pulls, events, calls, settled, logged, lastChange, mutationError, accepted, isEmpty >>

\* lines 68-74: the renderer's changes are forwarded to the scene
\* definition, the end of the initialization is signalled and the state
\* events are listened to, in one run
FinishInitialization(inbox) ==
  /\ forwarding' = TRUE
  /\ rendererInbox' = Append(inbox, InitFinished)
  /\ listening' = TRUE
  /\ sysPc' = "enabled"

\* SysGotIsEmpty fetching the stored state whatever the answer
SysGotIsEmpty_Fetching(ok, empty) ==
  /\ sysPc = "getIsEmpty"
  /\ IF ~ok
     THEN /\ sysPc' = "rejected"
          /\ sysError' = Err("getIsEmpty")
          /\ UNCHANGED isEmpty
     ELSE /\ isEmpty' = IF empty THEN "empty" ELSE "notEmpty"
          /\ sysPc' = "getInititalSceneState"
          /\ UNCHANGED sysError
  /\ UNCHANGED << sceneDefinition, rendererInbox, forwarding, listening,
                  initialState, pulls, events, calls, settled, logged, lastChange, mutationError, accepted >>

\* lines 52-57 and 64-74: an empty parcel starts with an empty scene
\* definition; the state of any other is fetched
SysGotIsEmpty(ok, empty) ==
  /\ sysPc = "getIsEmpty"
  /\ IF ~ok
     THEN /\ sysPc' = "rejected"
          /\ sysError' = Err("getIsEmpty")
          /\ UNCHANGED << sceneDefinition, rendererInbox, forwarding, listening,
                          isEmpty >>
     ELSE IF empty
     THEN /\ isEmpty' = "empty"
          /\ sceneDefinition' = << >>
          /\ FinishInitialization(rendererInbox)
          /\ UNCHANGED sysError
     ELSE /\ isEmpty' = "notEmpty"
          /\ sysPc' = "getInititalSceneState"
          /\ UNCHANGED << sceneDefinition, rendererInbox, forwarding, listening,
                          sysError >>
  /\ UNCHANGED << initialState, pulls, events, calls, settled, logged, lastChange, mutationError, accepted >>

\* fetchInitialState fails with NotFound or BackendUnavailable
FetchErrors == {"NotFound", "BackendUnavailable"}

\* SysGotInitialState with forwardChangesTo called as soon as the scene
\* definition exists, before the push of the initial state
SysGotInitialState_Forwarding(ok, g) ==
  /\ sysPc = "getInititalSceneState"
  /\ IF ok
     THEN /\ sceneDefinition' = g
          /\ initialState' = g
          /\ forwarding' = TRUE
          /\ sysPc' = "sendAssetsFromScene"
          /\ UNCHANGED sysError
     ELSE /\ sysPc' = "rejected"
          /\ \E e \in FetchErrors : sysError' = Err(e)
          /\ UNCHANGED << sceneDefinition, initialState, forwarding >>
  /\ UNCHANGED << rendererInbox, listening, pulls, events, calls, settled, logged, lastChange, mutationError, accepted, isEmpty >>

\* SysGotInitialState pushing the state to the renderer as soon as it has
\* arrived, before its assets are sent
SysGotInitialState_Pushing(ok, g) ==
  /\ sysPc = "getInititalSceneState"
  /\ IF ok
     THEN /\ sceneDefinition' = g
          /\ initialState' = g
          /\ rendererInbox' = rendererInbox \o SendStateTo(g)
          /\ sysPc' = "sendAssetsFromScene"
          /\ UNCHANGED sysError
     ELSE /\ sysPc' = "rejected"
          /\ \E e \in FetchErrors : sysError' = Err(e)
          /\ UNCHANGED << sceneDefinition, initialState, rendererInbox >>
  /\ UNCHANGED << forwarding, listening, pulls, events, calls, settled, logged, lastChange, mutationError, accepted, isEmpty >>

\* lines 57-58: the initial state has arrived; its assets are sent
SysGotInitialState(ok, g) ==
  /\ sysPc = "getInititalSceneState"
  /\ IF ok
     THEN /\ sceneDefinition' = g
          /\ initialState' = g
          /\ sysPc' = "sendAssetsFromScene"
          /\ UNCHANGED sysError
     ELSE /\ sysPc' = "rejected"
          /\ \E e \in FetchErrors : sysError' = Err(e)
          /\ UNCHANGED << sceneDefinition, initialState >>
  /\ UNCHANGED << rendererInbox, forwarding, listening, pulls, events, calls, settled, logged, lastChange, mutationError, accepted,
                  isEmpty >>

\* lines 58-74: the assets are sent; the initial state is pushed to the
\* renderer and the initialization finished
SysAssetsSent(ok) ==
  /\ sysPc = "sendAssetsFromScene"
  /\ IF ok
     THEN /\ FinishInitialization(rendererInbox \o SendStateTo(sceneDefinition))
          /\ UNCHANGED sysError
     ELSE /\ sysPc' = "rejected"
          /\ sysError' = Err("sendAssetsFromScene")
          /\ UNCHANGED << rendererInbox, forwarding, listening >>
  /\ UNCHANGED << sceneDefinition, initialState, pulls, events, calls, settled, logged, lastChange, mutationError, accepted, isEmpty >>

\* the handlers forwardChangesTo has registered run for a change event
\* (k, v); `echo` tells the events that repeat a message of the push
Deliver(k, v, echo) ==
  /\ sysPc # "start"
  /\ pulls < MaxPulls
  /\ pulls' = pulls + 1
  /\ IF forwarding
     THEN /\ sceneDefinition' = Mutate(sceneDefinition, k, v).graph
          /\ mutationError' = Mutate(sceneDefinition, k, v).error
          /\ lastChange' =
               [ key |-> k, value |-> v, echo |-> echo,
                 again |-> /\ lastChange # Undefined
                           /\ lastChange.key = k
                           /\ lastChange.value = v ]
          /\ accepted' = Append(accepted,
               \E i \in 1..Len(rendererInbox) : rendererInbox[i] = InitFinished)
     ELSE UNCHANGED << sceneDefinition, accepted, lastChange, mutationError >>
  /\ UNCHANGED << sysPc, initialState, rendererInbox, forwarding, listening,
                  isEmpty, events, calls, settled, logged, sysError >>

\* RendererStatefulActor.forwardChangesTo: a change event of the renderer
\* is delivered between two runs of the scene's code; it is applied to the
\* scene definition when the actor has subscribed, and lost otherwise
RendererChange(k, v) == Deliver(k, v, FALSE)

\* the renderer reports a component update it has been sent as a change
\* event of its own
RendererEcho(i) ==
  /\ i \in 1..Len(rendererInbox)
  /\ rendererInbox[i] # InitFinished
  /\ Deliver(rendererInbox[i].key, rendererInbox[i].value, TRUE)

\* the types of the state events; the last one is of no handler
EventTypes ==
  {"PublishSceneState", "SaveSceneState", "SaveProjectInfo", "OtherEvent"}

\* lines 88, 98, 109: serializeSceneState(this.sceneDefinition)
serializeSceneState(g) == fromStorableFormatToSerializedState([graph |-> g])

\* Handlers with no test of the type in the handler of the save requests
Handlers_Untyped(type, g, n) ==
  (IF type = "PublishSceneState"
   THEN << [op |-> "publishSceneState", sceneId |-> Cid,
            sceneState |-> serializeSceneState(g),
            logged |-> n] >>
   ELSE << >>)
  \o << [op |-> "saveSceneState", sceneState |-> serializeSceneState(g),
            logged |-> n] >>
  \o (IF type = "SaveProjectInfo"
      THEN << [op |-> "saveProjectInfo", sceneState |-> serializeSceneState(g),
            logged |-> n] >>
      ELSE << >>)

\* lines 79-116: the three handlers of 'stateEvent' run one after another;
\* each makes its call when the event is of its type.  `logged` is history:
\* the number of errors logged before the call
Handlers(type, g, n) ==
  (IF type = "PublishSceneState"
   THEN << [op |-> "publishSceneState", sceneId |-> Cid,
            sceneState |-> serializeSceneState(g),
            logged |-> n] >>
   ELSE << >>)
  \o (IF type = "SaveSceneState"
      THEN << [op |-> "saveSceneState", sceneState |-> serializeSceneState(g),
            logged |-> n] >>
      ELSE << >>)
  \o (IF type = "SaveProjectInfo"
      THEN << [op |-> "saveProjectInfo", sceneState |-> serializeSceneState(g),
            logged |-> n] >>
      ELSE << >>)

\* lines 90, 99, 114: the context a rejected call is logged with
Context(o) ==
  CASE o = "publishSceneState" -> "Failed to store the scene's state"
    [] o = "saveSceneState" -> "Failed to save the scene's manifest"
    [] o = "saveProjectInfo" -> "Failed to save the scene's info"

\* a state event of the renderer is delivered between two runs of the
\* scene's code; it has handlers once listenToEvents has run
StateEvent(type) ==
  /\ sysPc # "start"
  /\ Len(events) < MaxEvents
  /\ events' = Append(events, type)
  /\ calls' = IF listening
              THEN calls \o Handlers(type, sceneDefinition, Len(logged))
              ELSE calls
  /\ UNCHANGED << sysPc, sceneDefinition, initialState, rendererInbox,
                  forwarding, listening, pulls, accepted, isEmpty, lastChange,
                  mutationError, settled, logged, sysError >>

\* lines 90, 99, 114: the promise of a call has resolved, or it has rejected
\* and the error is logged
CallSettled(ok) ==
  /\ settled < Len(calls)
  /\ settled' = settled + 1
  /\ logged' = IF ok THEN logged
               ELSE Append(logged, Context(calls[settled + 1].op))
  /\ UNCHANGED << sysPc, sceneDefinition, initialState, rendererInbox,
                  forwarding, listening, pulls, accepted, isEmpty, lastChange,
                  mutationError, events, calls, sysError >>

(***************************************************************************)
(* shared/friends/sagas.ts: private messages                               *)
(***************************************************************************)
\* number of messages the social server delivers in one session
MaxDeliveries == 3

MessageIds == { "m1", "m2" }

\* line 66: MESSAGE_LIFESPAN_MILLIS; the age of an entry of receivedMessages
\* is Young while now - timestamp <= MESSAGE_LIFESPAN_MILLIS, Old afterwards
Young == 0
Old == 1

VARIABLES
  pmPc,              \* initializePrivateMessaging: "init", "ready" or "failed"
  chatWindow,        \* AddMessageToChatWindow: the message ids sent to the renderer
  receivedMessages,  \* line 65: message id -> age of its timestamp
  deliveries         \* onMessage calls of the social client so far

chatVars == << pmPc, chatWindow, receivedMessages, deliveries >>

ChatInit ==
  /\ pmPc = "init"
  /\ chatWindow = << >>
  /\ receivedMessages = << >>
  /\ deliveries = 0

\* the messages of a set in the order of their ids
RECURSIVE InOrder(_)
InOrder(ms) ==
  IF ms = {} THEN << >>
  ELSE LET m == CHOOSE x \in ms : \A y \in ms : x = "m1" \/ y # "m1"
       IN << m >> \o InOrder(ms \ {m})

\* lines 467-470: addNewChatMessage
addNewChatMessage(window, m) == Append(window, m)

\* lines 104-157: the login or a request of the initialization has failed;
\* no listener is registered (lines 88-93)
PmInitFailed ==
  /\ pmPc = "init"
  /\ pmPc' = "failed"
  /\ UNCHANGED << chatWindow, receivedMessages, deliveries >>

\* lines 127-164, 240: the last messages of the conversations with a friend
\* are added to the chat window, then the listener of new messages is
\* registered and the clean up of receivedMessages is started
PmInitialized(history) ==
  /\ pmPc = "init"
  /\ chatWindow' = InOrder(history)
  /\ pmPc' = "ready"
  /\ UNCHANGED << receivedMessages, deliveries >>

\* lines 167-172: the message is recorded with the time of its arrival
Received(m) ==
  [ x \in DOMAIN receivedMessages \cup {m} |->
      IF x = m THEN Young ELSE receivedMessages[x] ]

\* lines 164-198: the listener of new messages
OnMessage(m, friend, blocked) ==
  /\ pmPc = "ready"
  /\ deliveries < MaxDeliveries
  /\ deliveries' = deliveries + 1
  /\ IF m \in DOMAIN receivedMessages
     THEN UNCHANGED << receivedMessages, chatWindow >>
     ELSE /\ receivedMessages' = Received(m)
          /\ chatWindow' = IF friend /\ ~blocked
                           THEN addNewChatMessage(chatWindow, m)
                           ELSE chatWindow
  /\ UNCHANGED pmPc

\* Date.now() advances by more than MESSAGE_LIFESPAN_MILLIS
TimePasses ==
  /\ \E m \in DOMAIN receivedMessages : receivedMessages[m] = Young
  /\ receivedMessages' = [ m \in DOMAIN receivedMessages |-> Old ]
  /\ UNCHANGED << pmPc, chatWindow, deliveries >>

\* lines 322-330: the interval of initializeReceivedMessagesCleanUp fires
CleanUp ==
  /\ pmPc = "ready"
  /\ \E m \in DOMAIN receivedMessages : receivedMessages[m] = Old
  /\ receivedMessages' =
       [ m \in { x \in DOMAIN receivedMessages : receivedMessages[x] # Old } |->
           receivedMessages[m] ]
  /\ UNCHANGED << pmPc, chatWindow, deliveries >>

(***************************************************************************)
(* shared/friends/sagas.ts: friendship updates                             *)
(***************************************************************************)
\* number of UPDATE_FRIENDSHIP actions dispatched in one session
MaxUpdates == 2

Users == { "u1", "u2" }

\* FriendshipAction
FriendshipActions ==
  { "NONE", "APPROVED", "REJECTED", "CANCELED", "REQUESTED_FROM",
    "REQUESTED_TO", "DELETED" }

VARIABLES
  friendsState,   \* store.friends: friends (a reference to an array of
                  \* friendArrays), fromFriendRequests, toFriendRequests
  friendArrays,   \* the arrays of friends allocated so far
  socialInfo,     \* the users findByUserId finds
  handlers        \* the handleUpdateFriendship sagas takeEvery has forked

friendsVars == << friendsState, friendArrays, socialInfo, handlers >>

\* Array.prototype.includes, indexOf and splice on a list of user ids
Includes(list, u) == \E i \in 1..Len(list) : list[i] = u
Without(list, u) == SelectSeq(list, LAMBDA x : x # u)

\* the users of a set as a list
ListOf(S) ==
  (IF "u1" \in S THEN << "u1" >> ELSE << >>) \o
  (IF "u2" \in S THEN << "u2" >> ELSE << >>)

\* what the social server holds for each user: nothing, a friendship, a
\* request from the user or a request to the user
Placements == [ Users -> { "none", "friend", "from", "to" } ]

\* what the social server answers initializeFriends with during a session
ServerPlacements ==
  { [ u \in Users |-> "none" ],
    [ u \in Users |-> IF u = "u1" THEN "friend" ELSE "from" ] }

\* what the friends state is built from when the session starts
InitialPlacements ==
  ServerPlacements \cup
    { [ u \in Users |-> IF u = "u1" THEN "to" ELSE "none" ] }

\* lines 283-295: the friends state initializeFriends builds, with a new
\* array of friends at index id
ServerState(p, id) ==
  [ friends |-> id,
    fromFriendRequests |-> ListOf({ u \in Users : p[u] = "from" }),
    toFriendRequests |-> ListOf({ u \in Users : p[u] = "to" }) ]

\* the three lists of a friends state
ListsOf(s, arrays) ==
  << arrays[s.friends], s.fromFriendRequests, s.toFriendRequests >>

FriendsInitOf(p) ==
  /\ friendsState = ServerState(p, 1)
  /\ friendArrays = << ListOf({ u \in Users : p[u] = "friend" }) >>
  /\ socialInfo = { u \in Users : p[u] # "none" }
  /\ handlers = << >>

\* no friend and no request
FriendsIdle == FriendsInitOf([ u \in Users |-> "none" ])

\* the requests handleOutgoingUpdateFriendshipStatus sends (lines 654-684)
HasRequest(action) ==
  action \in { "APPROVED", "REJECTED", "CANCELED", "REQUESTED_TO", "DELETED" }

\* handler i with its fields replaced
Set(i, h) == handlers' = [ handlers EXCEPT ![i] = h ]

\* lines 616-619 and 627-628: initializeFriends is called
CallInitializeFriends(h, where) ==
  [ h EXCEPT !.pc = where, !.inits = @ + 1 ]

\* how a request to the social server ends: it resolves, or it rejects
\* with an UnknownUsersError or with another error
Outcomes == { "ok", "UnknownUsersError", "Error" }

\* lines 620-628: the catch block; the profile is asked for after an
\* UnknownUsersError
Catch(h, e) ==
  IF e = "UnknownUsersError"
  THEN [ h EXCEPT !.raised = TRUE, !.pc = "catch_profile" ]
  ELSE CallInitializeFriends([ h EXCEPT !.raised = TRUE ], "catch_init")

\* lines 604-619 without the put: the effect of an update that stores
\* nothing
AfterSwitch(h) ==
  IF h.incoming THEN [ h EXCEPT !.pc = "done" ]
  ELSE CallInitializeFriends(h, "init")

\* lines 607-613, 641-684: the effect of an update that has stored a state
Effect(h) ==
  IF h.incoming THEN [ h EXCEPT !.pc = "renderer" ]
  ELSE IF h.userId \notin socialInfo
  THEN CallInitializeFriends(h, "init")
  ELSE IF HasRequest(h.action)
  THEN [ h EXCEPT !.pc = "request", !.effect = TRUE ]
  ELSE [ h EXCEPT !.pc = "delay" ]

\* lines 604-605: put(updatePrivateMessagingState(newState)), then the effect
Put(i, h, newState, arrays) ==
  /\ friendsState' = newState
  /\ friendArrays' = arrays
  /\ Set(i, Effect([ h EXCEPT !.pending = Undefined,
                              !.changed = @ \/ ListsOf(newState, arrays) #
                                               ListsOf(friendsState, friendArrays) ]))

\* nothing is stored
NoPut(i, h) ==
  /\ Set(i, AfterSwitch(h))
  /\ UNCHANGED << friendsState, friendArrays >>

\* lines 572-580: REQUESTED_FROM
RequestedFrom(i, h) ==
  LET state == h.state
      u == h.userId
  IN IF Includes(state.fromFriendRequests, u)
     THEN NoPut(i, h)
     ELSE Put(i, h, [ state EXCEPT !.fromFriendRequests = Append(@, u) ],
              friendArrays)

\* lines 527-614: the switch on the action, on the state read at line 514
Switch(i, h) ==
  LET state == h.state
      u == h.userId
      selector == IF h.action \in { "APPROVED", "REJECTED" }
                  THEN IF h.incoming THEN "toFriendRequests" ELSE "fromFriendRequests"
                  ELSE IF h.incoming THEN "fromFriendRequests" ELSE "toFriendRequests"
      removed == [ state EXCEPT ![selector] = Without(@, u) ]
  IN CASE h.action = "NONE" -> NoPut(i, h)
       [] h.action \in { "APPROVED", "REJECTED" } ->
            IF ~Includes(state[selector], u) THEN NoPut(i, h)
            ELSE IF h.action = "APPROVED" /\ ~Includes(friendArrays[state.friends], u)
            THEN \* line 546: newState.friends is the array of state.friends
                 /\ friendArrays' = [ friendArrays EXCEPT ![state.friends] = Append(@, u) ]
                 /\ Set(i, [ h EXCEPT !.pc = "approved", !.pending = removed,
                                      !.changed = (friendsState.friends = state.friends) ])
                 /\ UNCHANGED friendsState
            ELSE Put(i, h, removed, friendArrays)
       [] h.action = "CANCELED" ->
            IF ~Includes(state[selector], u) THEN NoPut(i, h)
            ELSE Put(i, h, removed, friendArrays)
       [] h.action = "REQUESTED_FROM" -> RequestedFrom(i, h)
       [] h.action = "REQUESTED_TO" ->
            IF Includes(state.toFriendRequests, u) THEN NoPut(i, h)
            ELSE Put(i, h, [ state EXCEPT !.toFriendRequests = Append(@, u) ],
                     friendArrays)
       [] h.action = "DELETED" ->
            IF ~Includes(friendArrays[state.friends], u) THEN NoPut(i, h)
            ELSE Put(i, h, [ state EXCEPT !.friends = Len(friendArrays) + 1 ],
                     Append(friendArrays, Without(friendArrays[state.friends], u)))

\* lines 518-525: the user is not loaded, the saga returns
NotLoaded(h) == [ h EXCEPT !.pc = "done" ]

\* lines 200-218, 506-520: an update of a friendship is dispatched, by a
\* listener of the social client (incoming, after updateUserData) or by the
\* renderer; takeEvery forks handleUpdateFriendship, which reads the state
\* and asks for the conversation
UpdateFriendship(action, userId, incoming) ==
  /\ Len(handlers) < MaxUpdates
  /\ socialInfo' = IF incoming THEN socialInfo \cup { userId } ELSE socialInfo
  /\ LET h == [ action |-> action, userId |-> userId, incoming |-> incoming,
                state |-> friendsState, pending |-> Undefined,
                pc |-> "conversation", changed |-> FALSE, effect |-> FALSE,
                inits |-> 0, raised |-> FALSE ]
     IN handlers' = Append(handlers,
                           IF userId \in socialInfo' THEN h ELSE NotLoaded(h))
  /\ UNCHANGED << friendsState, friendArrays >>

\* lines 520-614: the conversation is there or the request has failed
ConversationCreated(i, outcome) ==
  /\ handlers[i].pc = "conversation"
  /\ IF outcome = "ok" THEN Switch(i, handlers[i])
     ELSE /\ Set(i, Catch(handlers[i], outcome))
          /\ UNCHANGED << friendsState, friendArrays >>
  /\ UNCHANGED socialInfo

\* lines 548-553, 604-614: the conversation of the new friend is there
ApprovedConversationCreated(i, outcome) ==
  /\ handlers[i].pc = "approved"
  /\ IF outcome = "ok" THEN Put(i, handlers[i], handlers[i].pending, friendArrays)
     ELSE /\ Set(i, Catch([ handlers[i] EXCEPT !.pending = Undefined ], outcome))
          /\ UNCHANGED << friendsState, friendArrays >>
  /\ UNCHANGED socialInfo

\* lines 608-610: the renderer is there, UpdateFriendshipStatus is sent
RendererReady(i) ==
  /\ handlers[i].pc = "renderer"
  /\ Set(i, [ handlers[i] EXCEPT !.pc = "done", !.effect = TRUE ])
  /\ UNCHANGED << friendsState, friendArrays, socialInfo >>

\* lines 654-687: the request to the social server has resolved or rejected
RequestDone(i, outcome) ==
  /\ handlers[i].pc = "request"
  /\ Set(i, IF outcome = "ok" THEN [ handlers[i] EXCEPT !.pc = "delay" ]
            ELSE Catch(handlers[i], outcome))

  /\ UNCHANGED << friendsState, friendArrays, socialInfo >>

\* lines 687, 616-619: the delay is over, initializeFriends is called
DelayDone(i) ==
  /\ handlers[i].pc = "delay"
  /\ Set(i, CallInitializeFriends(handlers[i], "init"))
  /\ UNCHANGED << friendsState, friendArrays, socialInfo >>

\* lines 621-628: the profile of the unknown user is there and the
\* notification is shown, or ensureFriendProfile has rejected in the catch
\* block, which ends the saga
ProfileEnsured(i, ok) ==
  /\ handlers[i].pc = "catch_profile"
  /\ Set(i, IF ok THEN CallInitializeFriends(handlers[i], "catch_init")
            ELSE [ handlers[i] EXCEPT !.pc = "failed" ])
  /\ UNCHANGED << friendsState, friendArrays, socialInfo >>

InitOutcomes == { "rejected", "stored", "done" }

\* lines 244-320: initializeFriends has returned, or has thrown before or
\* after its put; thrown in the try block it is caught (lines 620-628),
\* thrown in the catch block it ends the saga
InitializeFriendsDone(i, outcome, p) ==
  /\ handlers[i].pc \in { "init", "catch_init" }
  /\ IF outcome = "rejected"
     THEN UNCHANGED << friendsState, friendArrays, socialInfo >>
     ELSE /\ friendsState' = ServerState(p, Len(friendArrays) + 1)
          /\ friendArrays' = Append(friendArrays,
                                    ListOf({ u \in Users : p[u] = "friend" }))
          /\ socialInfo' = { u \in Users : p[u] # "none" }
  /\ Set(i, IF outcome = "done" THEN [ handlers[i] EXCEPT !.pc = "done" ]
            ELSE IF handlers[i].pc = "init" THEN Catch(handlers[i], "Error")
            ELSE [ handlers[i] EXCEPT !.pc = "failed", !.raised = TRUE ])

(***************************************************************************)
(* shared/portableExperiences/sagas.ts                                     *)
(***************************************************************************)
\* number of actions that change the desired portable experiences, and of
\* reloads, in one session
MaxChanges == 3
MaxReloads == 1

PxIds == { "px1", "px2" }

\* the actions portableExperienceSaga takes with handlePortableExperienceChanges
ChangeActions ==
  { "REMOVE_DESIRED_PORTABLE_EXPERIENCE", "ADD_DESIRED_PORTABLE_EXPERIENCE",
    "DENY_PORTABLE_EXPERIENCES", "ADD_SCENE_PX", "REMOVE_SCENE_PX" }

VARIABLES
  desired,     \* getDesiredPortableExperiences: the ids of the desired ones
  dispatched,  \* history: the payloads of the UPDATE_ENGINE_PX actions
  debounced,   \* debounce: the last UPDATE_ENGINE_PX action of the burst, if any
  declared,    \* the arguments of the declareWantedPortableExperiences calls
  reload,      \* the reloadPortableExperienceChanges saga that is running
  reloads      \* RELOAD_SCENE_PX actions so far

pxVars == << desired, dispatched, debounced, declared, reload, reloads >>

NoReload == [ pc |-> "idle" ]

PxInit ==
  /\ desired = {}
  /\ dispatched = << >>
  /\ debounced = << >>
  /\ declared = << >>
  /\ reload = NoReload
  /\ reloads = 0

\* lines 31-34: handlePortableExperienceChanges selects the desired list
\* after the reducers have run and dispatches it
HandleChanges(before, after) == after

\* lines 21-25, 27, 31-34: an action changes the desired portable
\* experiences; the update is dispatched and the debounce starts again
ChangeDesired(type, d) ==
  /\ Len(dispatched) < MaxChanges
  /\ desired' = d
  /\ dispatched' = Append(dispatched, HandleChanges(desired, d))
  /\ debounced' = << HandleChanges(desired, d) >>
  /\ UNCHANGED << declared, reload, reloads >>

\* line 27: the action the debounce hands over when 100 ms have passed
\* with no UPDATE_ENGINE_PX: the last one
Elapsed(pending) == pending[Len(pending)]

\* lines 27, 51-53: the debounce interval has passed;
\* handlePortableExperienceChangesEffect declares the payload
DebounceElapsed ==
  /\ debounced # << >>
  /\ declared' = Append(declared, Elapsed(debounced))
  /\ debounced' = << >>
  /\ UNCHANGED << desired, dispatched, reload, reloads >>

\* lines 26, 37-45: RELOAD_SCENE_PX; the desired list is read and declared
\* without the one to reload
ReloadScenePx(id) ==
  /\ reloads < MaxReloads
  /\ reload = NoReload
  /\ reloads' = reloads + 1
  /\ declared' = Append(declared, desired \ { id })
  /\ reload' = [ pc |-> "unload", all |-> desired ]
  /\ UNCHANGED << desired, dispatched, debounced >>

\* lines 45-47: the first declaration has returned or thrown; the list read
\* at line 38 is declared
ReloadUnloaded(ok) ==
  /\ reload.pc = "unload"
  /\ IF ok
     THEN /\ declared' = Append(declared, reload.all)
          /\ reload' = [ reload EXCEPT !.pc = "load" ]
     ELSE /\ reload' = NoReload
          /\ UNCHANGED declared
  /\ UNCHANGED << desired, dispatched, debounced, reloads >>

\* line 47: the second declaration has returned or thrown
ReloadLoaded ==
  /\ reload.pc = "load"
  /\ reload' = NoReload
  /\ UNCHANGED << desired, dispatched, debounced, declared, reloads >>

(***************************************************************************)
(* shared/portableExperiences/types.ts, lines 14-184: the meta sagas       *)
(***************************************************************************)
\* number of SELECT_NETWORK and of USER_AUTHENTIFIED actions in one session
MaxSelections == 2
MaxLogins == 2

Networks == { "mainnet", "ropsten" }
NoNetwork == "none"

\* how a fetch ends: it rejects, it resolves with a status that is not ok,
\* with a body that is not JSON, with the JSON value null or with a JSON
\* object
Responses == { "rejected", "notOk", "notJson", "null", "object" }

\* the JSON value null
JsonNull == [ kind |-> "null" ]

VARIABLES
  network,        \* state.dao.network
  metaPc,         \* metaSaga: "start", "network", "config", "flags", "done", "failed"
  metaNet,        \* initMeta: net
  metaConfig,     \* initMeta: what fetchMetaConfiguration has returned
  flagsAndVariants, \* initMeta: what fetchFeatureFlagsAndVariants has returned
  initialized,    \* the payloads of the metaConfigurationInitialized actions
  motdPc,         \* fetchMessageOfTheDay: "idle" or "fetching"
  messageOfTheDay,  \* the payloads of the metaUpdateMessageOfTheDay actions
  selections,     \* SELECT_NETWORK actions so far
  logins          \* USER_AUTHENTIFIED actions so far

metaVars ==
  << network, metaPc, metaNet, metaConfig, flagsAndVariants, initialized, motdPc,
     messageOfTheDay, selections, logins >>

MetaInit ==
  /\ network = NoNetwork
  /\ metaPc = "start"
  /\ metaNet = NoNetwork
  /\ metaConfig = Undefined
  /\ flagsAndVariants = Undefined
  /\ initialized = << >>
  /\ motdPc = "idle"
  /\ messageOfTheDay = << >>
  /\ selections = 0
  /\ logins = 0

\* lines 163-183: the configuration used when the fetch has failed
DefaultConfiguration(net) == [ source |-> "default", network |-> net ]

\* lines 64-70, 80-82: a network is selected; fetchMetaConfiguration is called
NetworkSelected(net) ==
  /\ metaPc' = "config"
  /\ metaNet' = net

\* the dao selects a network; initMeta goes on when it waits for it
SelectNetwork(net) ==
  /\ selections < MaxSelections
  /\ selections' = selections + 1
  /\ network' = net
  /\ IF metaPc = "network" THEN NetworkSelected(net)
     ELSE UNCHANGED << metaPc, metaNet >>
  /\ UNCHANGED << metaConfig, flagsAndVariants, initialized, motdPc,
                  messageOfTheDay, logins >>

\* lines 113-115, 64-70: metaSaga is forked; it takes the latest
\* USER_AUTHENTIFIED and waits for the network
MetaSaga ==
  /\ metaPc = "start"
  /\ IF network # NoNetwork THEN NetworkSelected(network)
     ELSE /\ metaPc' = "network"
          /\ UNCHANGED metaNet
  /\ UNCHANGED << network, metaConfig, flagsAndVariants, initialized, motdPc,
                  messageOfTheDay, selections, logins >>

\* lines 151-184: fetchMetaConfiguration.  A rejected fetch and a status
\* that is not ok are caught and give the default configuration; the
\* promise of response.json() is returned, not awaited, so a body that is
\* not JSON rejects the call
fetchMetaConfiguration(net, response) ==
  CASE response \in { "rejected", "notOk" } ->
         [ returned |-> DefaultConfiguration(net) ]
    [] response = "notJson" -> [ thrown |-> "SyntaxError" ]
    [] response = "null" -> [ returned |-> JsonNull ]
    [] response = "object" -> [ returned |-> [ source |-> "remote", network |-> net ] ]

\* lines 137-149: fetchFeatureFlagsAndVariants
fetchFeatureFlagsAndVariants(net, response) ==
  CASE response \in { "rejected", "notOk" } -> [ returned |-> Undefined ]
    [] response = "notJson" -> [ thrown |-> "SyntaxError" ]
    [] response = "null" -> [ returned |-> JsonNull ]
    [] response = "object" -> [ returned |-> [ flags |-> net ] ]

\* line 82: fetchMetaConfiguration has returned or thrown
ConfigFetched(response) ==
  /\ metaPc = "config"
  /\ LET r == fetchMetaConfiguration(metaNet, response)
     IN IF "thrown" \in DOMAIN r
        THEN /\ metaPc' = "failed"
             /\ UNCHANGED metaConfig
        ELSE /\ metaPc' = "flags"
             /\ metaConfig' = r.returned
  /\ UNCHANGED << network, metaNet, flagsAndVariants, initialized, motdPc,
                  messageOfTheDay, selections, logins >>

\* lines 88-100: the merge of the configuration and the flags; reading
\* config.comms throws when the configuration is null
Merge(c, f) ==
  IF c = JsonNull THEN [ thrown |-> "TypeError" ]
  ELSE [ returned |-> [ config |-> c,
                        featureFlagsV2 |-> f ] ]

\* lines 83-110: fetchFeatureFlagsAndVariants has returned or thrown; the
\* configuration is merged and metaConfigurationInitialized is dispatched
FlagsFetched(response) ==
  /\ metaPc = "flags"
  /\ LET r == fetchFeatureFlagsAndVariants(metaNet, response)
     IN IF "thrown" \in DOMAIN r
        THEN /\ metaPc' = "failed"
             /\ UNCHANGED << flagsAndVariants, initialized >>
        ELSE /\ flagsAndVariants' = r.returned
             /\ LET merge == Merge(metaConfig, r.returned)
                IN IF "thrown" \in DOMAIN merge
                   THEN /\ metaPc' = "failed"
                        /\ UNCHANGED initialized
                   ELSE /\ metaPc' = "done"
                        /\ initialized' = Append(initialized, merge.returned)
  /\ UNCHANGED << network, metaNet, metaConfig, motdPc, messageOfTheDay,
                  selections, logins >>

\* lines 114, 118-120: USER_AUTHENTIFIED; takeLatest cancels the fetch that
\* is running and forks fetchMessageOfTheDay, which fetches when there is a
\* user id
UserAuthentified(hasUserId) ==
  /\ metaPc # "start"
  /\ logins < MaxLogins
  /\ logins' = logins + 1
  /\ motdPc' = IF hasUserId THEN "fetching" ELSE "idle"
  /\ UNCHANGED << network, metaPc, metaNet, metaConfig, flagsAndVariants,
                  initialized, messageOfTheDay, selections >>

\* lines 121-134: the message of the day, or null when the fetch has failed
MessageFetched(message) ==
  /\ motdPc = "fetching"
  /\ motdPc' = "idle"
  /\ messageOfTheDay' = Append(messageOfTheDay, message)
  /\ UNCHANGED << network, metaPc, metaNet, metaConfig, flagsAndVariants,
                  initialized, selections, logins >>

\* everything outside the controller and the scene session
sagaVars == << chatVars, friendsVars, pxVars, metaVars >>
SagaInit == ChatInit /\ FriendsIdle /\ PxInit /\ MetaInit

\* what the actions of each saga leave alone
notChat == << vars, sceneVars, friendsVars, pxVars, metaVars >>
notFriends == << vars, sceneVars, chatVars, pxVars, metaVars >>
notPx == << vars, sceneVars, chatVars, friendsVars, metaVars >>
notMeta == << vars, sceneVars, chatVars, friendsVars, pxVars >>

(***************************************************************************)
(* Specifications                                                          *)
(***************************************************************************)
\* the controller with no scene session
allVars == << vars, sceneVars, sagaVars >>

Init == ControllerInit /\ SceneInit /\ SagaInit
Next ==
  \/ \E sceneId \in SceneIds, title \in Titles, screenshot \in Screenshots,
        w \in Payloads :
       PublishSceneState(sceneId, title, screenshot, w) /\ UNCHANGED << sceneVars, sagaVars >>
  \/ \E ok \in BOOLEAN :
       PubDebugSaved(ok) /\ UNCHANGED << sceneVars, sagaVars >>
  \/ \E ok \in BOOLEAN, known \in SUBSET AssetIds :
       PubGotAllAssets(ok, known) /\ UNCHANGED << sceneVars, sagaVars >>
  \/ \E ok \in BOOLEAN :
       PubGotBuilderAssets(ok) /\ UNCHANGED << sceneVars, sagaVars >>
  \/ \E p \in DOMAIN fetched, outcome \in FetchOutcomes :
       PubFetchDone(p, outcome) /\ UNCHANGED << sceneVars, sagaVars >>
  \/ PubDownloaded /\ UNCHANGED << sceneVars, sagaVars >>
  \/ \E ok \in BOOLEAN :
       PubThumbnailRead(ok) /\ UNCHANGED << sceneVars, sagaVars >>
  \/ \E ok \in BOOLEAN :
       PubEntityBuilt(ok) /\ UNCHANGED << sceneVars, sagaVars >>
  \/ \E ok \in BOOLEAN :
       PubDeployed(ok) /\ UNCHANGED << sceneVars, sagaVars >>
  \/ \E ok \in BOOLEAN :
       UpdConverted(ok) /\ UNCHANGED << sceneVars, sagaVars >>
  \/ \E ok \in BOOLEAN :
       UpdManifestUpdated(ok) /\ UNCHANGED << sceneVars, sagaVars >>
  \/ \E ok \in BOOLEAN :
       UpdThumbnailUpdated(ok) /\ UNCHANGED << sceneVars, sagaVars >>
  \/ \E o \in {"getProjectManifest", "getProjectManifestByCoordinates"} :
       GetProjectManifest(o) /\ UNCHANGED << sceneVars, sagaVars >>
  \/ \E resp \in ManifestResponses :
       GpmFetched(resp) /\ UNCHANGED << sceneVars, sagaVars >>
  \/ \E coords \in {"0,0"} :
       CreateProjectWithCoords(coords) /\ UNCHANGED << sceneVars, sagaVars >>
  \/ \E resp \in ManifestResponses :
       CpcCreated(resp) /\ UNCHANGED << sceneVars, sagaVars >>
  \/ \E w \in Payloads :
       SaveSceneState(w) /\ UNCHANGED << sceneVars, sagaVars >>
  \/ \E ok \in BOOLEAN :
       SaveConverted(ok) /\ UNCHANGED << sceneVars, sagaVars >>
  \/ \E ok \in BOOLEAN :
       SaveManifestUpdated(ok) /\ UNCHANGED << sceneVars, sagaVars >>
  \/ \E w \in Payloads, title \in Titles, screenshot \in Screenshots :
       SaveProjectInfo(w, title, screenshot) /\ UNCHANGED << sceneVars, sagaVars >>
  \/ \E sceneId \in SceneIds :
       GetStoredState(sceneId) /\ UNCHANGED << sceneVars, sagaVars >>
  \/ \E ok \in BOOLEAN :
       GssStorageRead(ok) /\ UNCHANGED << sceneVars, sagaVars >>
  \/ \E ok \in BOOLEAN :
       GssEntityFetched(ok) /\ UNCHANGED << sceneVars, sagaVars >>
  \/ \E ok \in BOOLEAN :
       GssDownloaded(ok) /\ UNCHANGED << sceneVars, sagaVars >>
  \/ CreateProjectFromStateDefinition /\ UNCHANGED << sceneVars, sagaVars >>
  \/ \E ok \in BOOLEAN :
       CpAssetsDownloaded(ok) /\ UNCHANGED << sceneVars, sagaVars >>
  \/ \E resp \in ManifestResponses :
       CpManifestBuilt(resp) /\ UNCHANGED << sceneVars, sagaVars >>
  \/ \E ok \in BOOLEAN :
       CpThumbnailDownloaded(ok) /\ UNCHANGED << sceneVars, sagaVars >>
  \/ SpawnedPublish /\ UNCHANGED << sceneVars, sagaVars >>
  \/ \E ok \in BOOLEAN :
       BgManifestUpdated(ok) /\ UNCHANGED << sceneVars, sagaVars >>
  \/ \E w \in Payloads :
       SendAssetsToRenderer(w) /\ UNCHANGED << sceneVars, sagaVars >>
  \/ \E ok \in BOOLEAN, known \in SUBSET AssetIds :
       SarAssetsFetched(ok, known) /\ UNCHANGED << sceneVars, sagaVars >>
  \/ SessionChange /\ UNCHANGED << sceneVars, sagaVars >>
  \/ Return /\ UNCHANGED << sceneVars, sagaVars >>
Spec == Init /\ [][Next]_allVars

\* a scene session whose controller is not called
SystemInit ==
  /\ SceneInit
  /\ SagaInit
  /\ ControllerInit
  /\ ~debug
  /\ identity
  /\ contentServer = DeployedScene
  /\ persistentStorage = [id \in SceneIds |-> Undefined]
SystemNext ==
  \/ SystemDidEnable /\ UNCHANGED << vars, sagaVars >>
  \/ \E ok \in BOOLEAN : SysGotParcel(ok) /\ UNCHANGED << vars, sagaVars >>
  \/ \E ok \in BOOLEAN, empty \in BOOLEAN :
       SysGotIsEmpty(ok, empty) /\ UNCHANGED << vars, sagaVars >>
  \/ \E ok \in BOOLEAN, g \in Graphs : SysGotInitialState(ok, g) /\ UNCHANGED << vars, sagaVars >>
  \/ \E ok \in BOOLEAN : SysAssetsSent(ok) /\ UNCHANGED << vars, sagaVars >>
  \/ \E k \in Keys \cup {UnknownKey}, v \in Values \cup {Removed, MalformedValue} :
       RendererChange(k, v) /\ UNCHANGED << vars, sagaVars >>
  \/ \E i \in 1..Len(rendererInbox) : RendererEcho(i) /\ UNCHANGED << vars, sagaVars >>
SceneSpec == SystemInit /\ [][SystemNext]_allVars

\* a scene session that is sent state events, and changes of one component
EventGraphs == { << >>, DeployedScene.graph }
EventKeys == { << "E2", GLTF_SHAPE >> }
EventValues == { "xyz", Removed }
EventNext ==
  \/ SystemDidEnable /\ UNCHANGED << vars, sagaVars >>
  \/ \E ok \in BOOLEAN : SysGotParcel(ok) /\ UNCHANGED << vars, sagaVars >>
  \/ \E ok \in BOOLEAN, empty \in BOOLEAN :
       SysGotIsEmpty(ok, empty) /\ UNCHANGED << vars, sagaVars >>
  \/ \E ok \in BOOLEAN, g \in EventGraphs :
       SysGotInitialState(ok, g) /\ UNCHANGED << vars, sagaVars >>
  \/ \E ok \in BOOLEAN : SysAssetsSent(ok) /\ UNCHANGED << vars, sagaVars >>
  \/ \E k \in EventKeys, v \in EventValues :
       RendererChange(k, v) /\ UNCHANGED << vars, sagaVars >>
  \/ \E type \in EventTypes : StateEvent(type) /\ UNCHANGED << vars, sagaVars >>
  \/ \E ok \in BOOLEAN : CallSettled(ok) /\ UNCHANGED << vars, sagaVars >>
EventSpec == SystemInit /\ [][EventNext]_allVars

\* private messaging alone
ChatNext ==
  \/ PmInitFailed /\ UNCHANGED notChat
  \/ \E history \in SUBSET MessageIds :
       PmInitialized(history) /\ UNCHANGED notChat
  \/ \E m \in MessageIds, friend \in BOOLEAN, blocked \in BOOLEAN :
       OnMessage(m, friend, blocked) /\ UNCHANGED notChat
  \/ TimePasses /\ UNCHANGED notChat
  \/ CleanUp /\ UNCHANGED notChat
ChatSpec == SystemInit /\ [][ChatNext]_allVars

\* the controller and the scene session at rest
Quiet ==
  /\ SceneInit
  /\ ControllerInit
  /\ ~debug
  /\ identity
  /\ contentServer = DeployedScene
  /\ persistentStorage = [id \in SceneIds |-> Undefined]

\* friendship updates alone
FriendsInit ==
  /\ Quiet
  /\ ChatInit
  /\ PxInit
  /\ MetaInit
  /\ \E p \in InitialPlacements : FriendsInitOf(p)
FriendsNext ==
  \/ \E action \in FriendshipActions, userId \in Users, incoming \in BOOLEAN :
       UpdateFriendship(action, userId, incoming) /\ UNCHANGED notFriends
  \/ \E i \in 1..Len(handlers), outcome \in Outcomes :
       ConversationCreated(i, outcome) /\ UNCHANGED notFriends
  \/ \E i \in 1..Len(handlers), outcome \in Outcomes :
       ApprovedConversationCreated(i, outcome) /\ UNCHANGED notFriends
  \/ \E i \in 1..Len(handlers) :
       RendererReady(i) /\ UNCHANGED notFriends
  \/ \E i \in 1..Len(handlers), outcome \in Outcomes :
       RequestDone(i, outcome) /\ UNCHANGED notFriends
  \/ \E i \in 1..Len(handlers) :
       DelayDone(i) /\ UNCHANGED notFriends
  \/ \E i \in 1..Len(handlers), ok \in BOOLEAN :
       ProfileEnsured(i, ok) /\ UNCHANGED notFriends
  \/ \E i \in 1..Len(handlers), outcome \in InitOutcomes, p \in ServerPlacements :
       InitializeFriendsDone(i, outcome, p) /\ UNCHANGED notFriends
FriendsSpec == FriendsInit /\ [][FriendsNext]_allVars

\* the portable experiences alone
PxNext ==
  \/ \E type \in ChangeActions, d \in SUBSET PxIds :
       ChangeDesired(type, d) /\ UNCHANGED notPx
  \/ DebounceElapsed /\ UNCHANGED notPx
  \/ \E id \in PxIds : ReloadScenePx(id) /\ UNCHANGED notPx
  \/ \E ok \in BOOLEAN : ReloadUnloaded(ok) /\ UNCHANGED notPx
  \/ ReloadLoaded /\ UNCHANGED notPx
PxSpec == SystemInit /\ [][PxNext]_allVars

\* the meta sagas alone; a saga that can take a step takes it, and a fetch
\* that is awaited resolves or rejects
MetaSteps ==
  \/ MetaSaga /\ UNCHANGED notMeta
  \/ \E response \in Responses : ConfigFetched(response) /\ UNCHANGED notMeta
  \/ \E response \in Responses : FlagsFetched(response) /\ UNCHANGED notMeta
  \/ \E message \in { "message", "null" } :
       MessageFetched(message) /\ UNCHANGED notMeta
MetaNext ==
  \/ \E net \in Networks : SelectNetwork(net) /\ UNCHANGED notMeta
  \/ \E hasUserId \in BOOLEAN : UserAuthentified(hasUserId) /\ UNCHANGED notMeta
  \/ MetaSteps
MetaSpec == SystemInit /\ [][MetaNext]_allVars /\ WF_allVars(MetaSteps)

(***************************************************************************)
(* Properties                                                              *)
(***************************************************************************)
Count(seq, x) == Cardinality({ i \in 1..Len(seq) : seq[i] = x })
InLog(step) == Count(log, step) > 0
IsPrefix(s, t) ==
  /\ Len(s) <= Len(t)
  /\ \A i \in 1..Len(s) : s[i] = t[i]

\* a publishSceneState invocation has completed
PublishDone == op = "publishSceneState" /\ pc = "done"

C2_DownloadFailureAborts ==
  (/\ op = "publishSceneState"
   /\ \E p \in DOMAIN fetched : fetched[p] \in {"transportError", "errorResponse"})
  =>
    /\ ~InLog("deployEntity")
    /\ pc = "done" => (result.kind = "returned" /\ result.value.ok = FALSE)

\* C3: publishSceneState completes by returning {ok:true} or {ok:false,
\* error}, never by a rejected promise
C3_PublishNeverRejects ==
  PublishDone => result.kind = "returned"

\* C4: a publish whose deployment has succeeded is not reported as failed,
\* to the caller or to the renderer, when the update of the editor backend
\* fails afterwards
C4_SecondaryFailureIsSoft ==
  (PublishDone /\ deployed # << >>) =>
    /\ result = Returned(Ok)
    /\ notified = << Ok >>

\* C7: getProjectManifest, getProjectManifestByCoordinates,
\* createProjectWithCoords, getStoredState,
\* createProjectFromStateDefinition and sendAssetsToRenderer complete by
\* returning, never by rejecting
C7_NoExceptionEscapes ==
  (/\ pc = "done"
   /\ op \in { "getProjectManifest", "getProjectManifestByCoordinates",
               "createProjectWithCoords", "getStoredState",
               "createProjectFromStateDefinition", "sendAssetsToRenderer" })
  => result.kind = "returned"

\* C8: a publish that fails notifies the renderer exactly once, with
\* {ok:false, error}, the result it returns to its caller
C8_FailedPublishNotified ==
  (PublishDone /\ result # Returned(Ok)) =>
    /\ Len(notified) = 1
    /\ notified[1].ok = FALSE
    /\ result = Returned(notified[1])

\* the definition getStoredState reads: the entry of the local storage in
\* debug mode, the definition file of the deployed entity otherwise
StoredDefinition(sceneId) ==
  IF debug THEN persistentStorage[StorageKey(sceneId)]
  ELSE IF contentServer = NoDefinitionFile THEN Undefined
  ELSE contentServer

PipelineOrder ==
  << "getConvertedAssets", "getBuilderAssets", "downloadAssetFiles",
     "blobToBuffer", "buildEntity", "signPayload", "deployEntity",
     "toBuilderFromStateDefinitionFormat", "updateProjectManifest",
     "updateProjectThumbnail" >>

\* the errors a deployment can end with when `step` is the last call made
RaisedAt(step) ==
  { ErrorString(Err(step)) }
    \cup (IF step = "downloadAssetFiles"
          THEN { ErrorString(TypeErr("fetch")) } ELSE {})
    \cup (IF step = "blobToBuffer"
          THEN { ErrorString(TypeErr("builderManifest")) } ELSE {})
    \cup (IF step = "buildEntity"
          THEN { ErrorString(IdentityError) } ELSE {})
    \cup (IF step = "toBuilderFromStateDefinitionFormat"
          THEN { ErrorString(IdentityError) } ELSE {})
    \cup (IF step = "updateProjectManifest"
          THEN { ErrorString(IdentityError) } ELSE {})

C10_DeployNotRetried ==
  op = "publishSceneState" =>
    /\ Count(log, "deployEntity") <= 1
    /\ Len(deployed) <= 1
    /\ (pc = "done" /\ log # << >> /\ log[Len(log)] = "deployEntity") =>
         /\ result = Returned(Failure(Err("deployEntity")))
         /\ notified = << Failure(Err("deployEntity")) >>
         /\ deployed = << >>

C10_Witness ==
  /\ PublishDone
  /\ Count(log, "deployEntity") = 1
  /\ result = Returned(Failure(Err("deployEntity")))

\* the messages of the initial push
InitialPush ==
  IF initialState = Undefined THEN << >> ELSE SendStateTo(initialState)

\* C5: "initialization finished" is sent at most once, and exactly once in
\* the session whose bootstrap has completed, after every message of the
\* initial push and before anything else; a change event of the renderer
\* is applied to the scene definition only when the signal has been sent
C5_InitFinishedOnce ==
  /\ Count(rendererInbox, InitFinished) <= 1
  /\ (sysPc = "enabled") <=> (Count(rendererInbox, InitFinished) = 1)
  /\ sysPc = "enabled" => rendererInbox = Append(InitialPush, InitFinished)
  /\ forwarding => Count(rendererInbox, InitFinished) = 1
  /\ \A i \in 1..Len(accepted) : accepted[i]

C5_Witness ==
  /\ sysPc = "enabled"
  /\ Len(InitialPush) = 2
  /\ pulls = 2
  /\ Len(accepted) = 1
  /\ sceneDefinition # initialState

\* the asset ids of the published state the backend has resolved no
\* descriptor for
Unresolved ==
  { a \in AssetIds :
      /\ \E i \in 1..Len(AssetIdsOf(args.sceneState)) :
           AssetIdsOf(args.sceneState)[i] = a
      /\ ~ \E i \in 1..Len(assets) : assets[i] = a }

\* C11: a publish whose asset resolution leaves a referenced asset id
\* without a descriptor is aborted: it returns {ok:false, error} and
\* deployEntity is not called
C11_UnresolvedAssetAborts ==
  (/\ op = "publishSceneState"
   /\ InLog("getBuilderAssets")
   /\ Unresolved # {})
  =>
    /\ ~InLog("deployEntity")
    /\ pc = "done" => (result.kind = "returned" /\ result.value.ok = FALSE)

\* C12: in the session whose parcel is empty the initial state is not
\* fetched and nothing is pushed: the session is enabled with the
\* "initialization finished" signal as the only message to the renderer,
\* and its scene definition has no entity until the renderer changes it
C12_EmptySceneBootstrap ==
  isEmpty = "empty" =>
    /\ sysPc = "enabled"
    /\ initialState = Undefined
    /\ sysError = Undefined
    /\ rendererInbox = << InitFinished >>
    /\ forwarding /\ listening
    /\ accepted = << >> => sceneDefinition = << >>

C12_Witness ==
  /\ isEmpty = "empty"
  /\ sysPc = "enabled"
  /\ sceneDefinition = << >>
  /\ rendererInbox = << InitFinished >>
  /\ pulls = 1

\* C13: the session whose fetch of the initial state has failed with
\* NotFound goes on with an empty scene definition
C13_NotFoundFallsBack ==
  sysError = Err("NotFound") =>
    /\ sysPc # "rejected"
    /\ sceneDefinition # Undefined

\* C14: in the session whose parcel is not empty nothing is sent to the
\* renderer while the initial state is fetched and its assets are sent,
\* and nothing at all when one of the two fails
C14_NoPushBeforeBootstrap ==
  (isEmpty = "notEmpty" /\ sysPc # "enabled") =>
    /\ sysPc \in {"getInititalSceneState", "sendAssetsFromScene", "rejected"}
    /\ rendererInbox = << >>

C14_Witness ==
  /\ isEmpty = "notEmpty"
  /\ sysPc = "rejected"
  /\ sysError = Err("sendAssetsFromScene")
  /\ initialState # Undefined
  /\ DOMAIN initialState # {}
  /\ rendererInbox = << >>

\* the asset ids of the GLTF shape components of a payload
ShapeIdsIn(w) ==
  { w.entities[i].assetId :
      i \in { j \in 1..Len(w.entities) :
                /\ w.entities[j].type = GLTF_SHAPE
                /\ w.entities[j].assetId # "" } }

\* C15: the bulk request of sendAssetsToRenderer names every asset id of a
\* GLTF shape component of the state, each once, and no other id; the
\* descriptors are sent to the renderer at most once, and once when the
\* call has returned; the descriptors a deployment resolves are of shape
\* components too, each once
C15_ShapeAssetsRequestedOnce ==
  /\ (op = "publishSceneState" /\ args.sceneState # Malformed) =>
       /\ \A i \in 1..Len(assets) : assets[i] \in ShapeIdsIn(args.sceneState)
       /\ \A i, j \in 1..Len(assets) : assets[i] = assets[j] => i = j
       /\ Count(log, "getConvertedAssets") <= 1
  /\ (op = "sendAssetsToRenderer" /\ args # Undefined) =>
    /\ { args.assetIds[i] : i \in 1..Len(args.assetIds) } = ShapeIdsIn(args.sceneState)
    /\ Len(args.assetIds) = Cardinality(ShapeIdsIn(args.sceneState))
    /\ Count(log, "getBuilderAssets") = 1
    /\ Len(notified) <= 1
    /\ (pc = "done" /\ result.kind = "returned") =>
         /\ result = ReturnedAck
         /\ notified = << SendSceneAssets(assets) >>
         /\ \A i \in 1..Len(assets) : assets[i] \in ShapeIdsIn(args.sceneState)

C15_Witness ==
  /\ op = "sendAssetsToRenderer"
  /\ pc = "done"
  /\ args # Undefined
  /\ \E i \in 1..Len(args.sceneState.entities) :
       args.sceneState.entities[i].type = SMART_ITEM
  /\ args.assetIds = << "abc" >>
  /\ notified = << SendSceneAssets(<< "abc" >>) >>

AssetFiles(a) ==
  UNION { { << a[i], k >> : k \in 1..Len(AssetMappings(a[i])) } :
            i \in 1..Len(a) }

\* the entity files handed to buildEntity
BuiltFiles == EntityFiles(args.sceneState, assets, fetched)

C17_OneEntryPerDownload ==
  (op = "publishSceneState" /\ pc = "pub_buildEntity") =>
    /\ \A p \in FixedPaths : p \in DOMAIN BuiltFiles /\ BuiltFiles[p] = [fixed |-> p]
    /\ DOMAIN BuiltFiles \ FixedPaths = DOMAIN fetched
    /\ \A p \in DOMAIN fetched : p[1] = MODELS_FOLDER

\* C18: saveSceneState never rejects; it answers {ok: true} only after the
\* manifest update it has sent has resolved, and {ok: false, error}
\* otherwise; when nobody is signed in it sends no manifest update and
\* answers {ok: false, error}
C18_SaveOkOnlyAfterUpdate ==
  (op = "saveSceneState") =>
    /\ pc = "done" =>
         /\ result.kind = "returned"
         /\ IF result.value = Ok
            THEN /\ log = << "toBuilderFromStateDefinitionFormat",
                             "updateProjectManifest" >>
                 /\ builderServer =
                      ToBuilderManifest(args.sceneState, builderManifest)
            ELSE /\ DOMAIN result.value = {"ok", "error"}
                 /\ result.value.ok = FALSE
    /\ ~identity =>
         /\ ~InLog("updateProjectManifest")
         /\ pc = "done" => result.value.ok = FALSE

C18_Witness ==
  /\ op = "saveSceneState"
  /\ pc = "done"
  /\ ~identity
  /\ args.sceneState # Malformed
  /\ result = Returned(Failure(IdentityError))

\* C19: when a failed read has ended getStoredState or a deployment, the
\* read had been attempted ATTEMPTS times
C19_ReadsAreRetried ==
  (/\ op \in {"getStoredState", "publishSceneState"}
   /\ pc = "done"
   /\ failedAttempts > 0)
  => failedAttempts = ATTEMPTS

\* the part of C19 the code keeps: the reads of the content server
C19_ContentReadsAreRetried ==
  (/\ op = "getStoredState"
   /\ pc = "done"
   /\ failedAttempts > 0)
  => failedAttempts = ATTEMPTS

\* payload v holds the graph of payload w, one component for each
\* component of the graph: none lost, added or changed, in whatever order
Equivalent(v, w) ==
  /\ GraphOf(v.entities) = GraphOf(w.entities)
  /\ Len(v.entities) = Cardinality(DOMAIN GraphOf(w.entities))

Pulled == pulls' = pulls + 1 /\ forwarding

\* the change event is of a component type of the kernel and carries a
\* component value or the removal
WellTypedChange(c) ==
  /\ c.key[2] \in {GLTF_SHAPE, TRANSFORM, SMART_ITEM}
  /\ c.value # MalformedValue

\* C21: a change of an unknown component type or with a malformed payload
\* is rejected with MalformedMutation and leaves the scene definition as it
\* was; a well-typed change is never rejected
C21_MalformedMutationRejected ==
  [][ Pulled =>
        IF WellTypedChange(lastChange')
        THEN mutationError' = Undefined
        ELSE /\ mutationError' = MalformedMutation
             /\ sceneDefinition' = sceneDefinition ]_allVars

C21_Witness ==
  /\ lastChange # Undefined
  /\ lastChange.key # UnknownKey
  /\ lastChange.value = MalformedValue
  /\ mutationError = MalformedMutation
  /\ sceneDefinition # << >>

\* C22: a change that repeats the change applied just before it leaves the
\* scene definition as the first application has left it, and so would
\* the repetition of any change of the current scene definition
C22_MutationIdempotent ==
  /\ [][ (Pulled /\ lastChange'.again) =>
           sceneDefinition' = sceneDefinition ]_allVars
  /\ [] ( sceneDefinition # Undefined =>
            \A k \in Keys \cup {UnknownKey},
               v \in Values \cup {Removed, MalformedValue} :
              Mutate(Mutate(sceneDefinition, k, v).graph, k, v).graph =
                Mutate(sceneDefinition, k, v).graph )

C22_Witness ==
  /\ lastChange # Undefined
  /\ lastChange.again
  /\ initialState # Undefined
  /\ lastChange.value \in AssetIds
  /\ lastChange.key \in DOMAIN sceneDefinition
  /\ lastChange.key \in DOMAIN initialState
  /\ initialState[lastChange.key] # lastChange.value

\* the initial state has been pushed to the renderer
PushCompleted ==
  \E i \in 1..Len(rendererInbox) : rendererInbox[i] = InitFinished

\* C23: once the push has completed, the echo of a pushed update whose
\* content the scene definition holds for that component leaves the scene
\* definition as it is
C23_EchoIsNoOp ==
  [][ (/\ Pulled
       /\ PushCompleted
       /\ lastChange'.echo
       /\ lastChange'.key \in DOMAIN sceneDefinition
       /\ sceneDefinition[lastChange'.key] = lastChange'.value)
      => sceneDefinition' = sceneDefinition ]_allVars

C23_Witness ==
  /\ lastChange # Undefined
  /\ lastChange.echo
  /\ initialState # Undefined
  /\ Cardinality(DOMAIN initialState) = MaxComponents
  /\ sceneDefinition = initialState
  /\ sysPc = "enabled"

Snapshot(g) == fromStorableFormatToSerializedState([graph |-> g]).entities

\* C25: the snapshot of the scene definition never lists two components of
\* one type for one entity; a well-typed change of a component replaces
\* the value the entity has for the type, or gives it one, a removal leaves
\* the entity without a component of the type, and the other components
\* stay as they were
C25_OneComponentPerType ==
  /\ [] ( sceneDefinition # Undefined =>
            \A i, j \in 1..Len(Snapshot(sceneDefinition)) :
              Key(Snapshot(sceneDefinition)[i]) = Key(Snapshot(sceneDefinition)[j])
                => i = j )
  /\ [][ (Pulled /\ WellTypedChange(lastChange')) =>
           LET k == lastChange'.key
               v == lastChange'.value
           IN /\ IF v = Removed
                 THEN k \notin DOMAIN sceneDefinition'
                 ELSE /\ k \in DOMAIN sceneDefinition'
                      /\ sceneDefinition'[k] = v
              /\ DOMAIN sceneDefinition' \ {k} = DOMAIN sceneDefinition \ {k}
              /\ \A x \in DOMAIN sceneDefinition \ {k} :
                   sceneDefinition'[x] = sceneDefinition[x] ]_allVars

C25_Witness ==
  /\ lastChange # Undefined
  /\ ~lastChange.again
  /\ ~lastChange.echo
  /\ initialState # Undefined
  /\ lastChange.key \in DOMAIN initialState
  /\ lastChange.key \in DOMAIN sceneDefinition
  /\ lastChange.value \in AssetIds
  /\ initialState[lastChange.key] \in AssetIds \ {lastChange.value}
  /\ sceneDefinition[lastChange.key] = lastChange.value
  /\ Cardinality(DOMAIN sceneDefinition) = Cardinality(DOMAIN initialState)

Routed(type) ==
  CASE type = "PublishSceneState" -> << "publishSceneState" >>
    [] type = "SaveSceneState" -> << "saveSceneState" >>
    [] type = "SaveProjectInfo" -> << "saveProjectInfo" >>
    [] OTHER -> << >>

\* C28: once listenToEvents has run, a state event of type
\* PublishSceneState, SaveSceneState or SaveProjectInfo makes one call, of
\* publishSceneState, saveSceneState or saveProjectInfo, with the
\* serialization of the scene definition of that moment, and an event of
\* another type makes none; a call that rejects is logged and changes
\* nothing else, and the handlers stay subscribed
C28_EventRouting ==
  /\ [][ (Len(events') = Len(events) + 1 /\ listening) =>
           LET type == events'[Len(events')]
           IN /\ Len(calls') = Len(calls) + Len(Routed(type))
              /\ SubSeq(calls', 1, Len(calls)) = calls
              /\ Routed(type) # << >> =>
                   /\ calls'[Len(calls')].op = Routed(type)[1]
                   /\ calls'[Len(calls')].sceneState.entities =
                        Snapshot(sceneDefinition) ]_allVars
  /\ [][ settled' = settled + 1 =>
           /\ calls' = calls
           /\ sceneDefinition' = sceneDefinition
           /\ sysPc' = sysPc
           /\ logged' \in { logged,
                            Append(logged, Context(calls[settled'].op)) }
       ]_allVars
  /\ [][ listening => listening' ]_allVars

C28_Witness ==
  /\ Len(calls) = MaxEvents
  /\ settled = 1
  /\ Len(logged) = 1
  /\ calls[1].op = "publishSceneState"
  /\ calls[Len(calls)].op = "saveProjectInfo"
  /\ calls[Len(calls)].logged = 1
  /\ calls[Len(calls)].sceneState # calls[1].sceneState

\* publishSceneState has returned {ok:false, error}
PublishFailed ==
  /\ PublishDone
  /\ result.kind = "returned"
  /\ ~result.value.ok

\* C29: a publishSceneState attempt that returns {ok:false} leaves the
\* session as it was when the attempt was invoked: the display of the
\* land's scene.json and the builder manifest with its creation_coords
C29_FailedPublishKeepsSession ==
  PublishFailed => session = sessionBefore

\* the publish createProjectFromStateDefinition has started is running
SpawnedRunning ==
  /\ op = "publishSceneState"
  /\ "running" \in DOMAIN spawned

\* lines 453-456: the manifest update of the publish has resolved, the
\* thumbnail update has been sent
PublishWroteManifest ==
  \E i \in 1..Len(log) : log[i] = "updateProjectThumbnail"

\* C30: in createProjectFromStateDefinition the manifest update it has sent
\* itself has completed when the publish it has started sends its own, and
\* when both have completed the editor backend holds the manifest of the
\* publish
C30_ManifestWritesNotConcurrent ==
  /\ (SpawnedRunning /\ pc = "upd_manifest") => bgManifest = Undefined
  /\ (SpawnedRunning /\ PublishWroteManifest /\ bgManifest = Undefined) =>
       builderServer = [ToBuilderManifest(args.sceneState, builderManifest)
                          EXCEPT !.title = args.title]

\* publishSceneState invoked by the host outside debug mode while
\* this.builderManifest has never been assigned
PublishedWithoutManifest ==
  /\ op = "publishSceneState"
  /\ "running" \notin DOMAIN spawned
  /\ ~debug
  /\ sessionBefore # << >>
  /\ sessionBefore[1] = Undefined

\* C31: a publish invoked outside debug mode before any builder manifest has
\* been loaded or created returns {ok:false, error}, and neither buildEntity
\* nor deployEntity is called
C31_NoManifestFailsPublish ==
  PublishedWithoutManifest =>
    /\ ~InLog("buildEntity")
    /\ ~InLog("deployEntity")
    /\ pc = "done" => (result.kind = "returned" /\ ~result.value.ok)

\* the definition stored for the scene sceneId: its entry of the local
\* storage in debug mode, the definition file of its entity on the content
\* server otherwise (the server holds the entity of the land's scene only)
DefinitionOf(sceneId) ==
  IF debug THEN persistentStorage[StorageKey(sceneId)]
  ELSE IF sceneId = Cid /\ contentServer # NoDefinitionFile THEN contentServer
  ELSE Undefined

\* C32: getStoredState(sceneId) returns the definition stored for the scene
\* sceneId and never that of another scene; it returns nothing when no
\* definition is stored for that scene or the fetch fails
C32_StoredStateOfTheScene ==
  (op = "getStoredState" /\ pc = "done") =>
    /\ result.kind = "returned"
    /\ IF "state" \in DOMAIN result
       THEN /\ DefinitionOf(args.sceneId) # Undefined
            /\ fromSerializedStateToStorableFormat(result.state) =
                 DefinitionOf(args.sceneId)
       ELSE result = ReturnedNothing

\* C33: each private message is added to the chat window of the renderer
\* at most once in a session, by the load of the history and by the
\* listener of new messages together
C33_MessageAddedAtMostOnce ==
  \A m \in MessageIds : Count(chatWindow, m) <= 1

\* C34: no user id is listed twice or in two of the lists friends,
\* fromFriendRequests and toFriendRequests, after any sequence of
\* friendship updates from a state where that holds
C34_FriendListsDisjoint ==
  \A u \in Users :
    Count(friendArrays[friendsState.friends]
            \o friendsState.fromFriendRequests
            \o friendsState.toFriendRequests, u) <= 1

\* handler i is past the switch and the effect of its update
EffectSettled(i) ==
  handlers[i].pc \in { "delay", "init", "catch_init", "catch_profile",
                       "done", "failed" }

\* C35: an update has its external effect, UpdateFriendshipStatus to the
\* renderer when incoming and the request to the social server otherwise,
\* if and only if it has changed the friends state
C35_EffectIffStateChanged ==
  \A i \in 1..Len(handlers) :
    EffectSettled(i) => (handlers[i].effect <=> handlers[i].changed)

\* C36: an update triggered by the renderer, and an update whose handling
\* has raised an error, has called initializeFriends when its saga ends
C36_RendererUpdateReinitializes ==
  \A i \in 1..Len(handlers) :
    (/\ handlers[i].pc \in { "done", "failed" }
     /\ ~handlers[i].incoming \/ handlers[i].raised)
      => handlers[i].inits >= 1

\* no UPDATE_ENGINE_PX action is waiting for the debounce and no reload is
\* running
PxQuiet == debounced = << >> /\ reload = NoReload

\* C37: every action that changes the desired portable experiences
\* dispatches an update carrying the desired list of that moment; when the
\* debounce interval has passed the engine is told the list of the last
\* update by one declareWantedPortableExperiences call for the burst, and
\* it is never left with an older list
C37_EngineToldLastDesired ==
  /\ [][ dispatched' # dispatched =>
           /\ dispatched' = Append(dispatched, desired')
           /\ debounced' = << desired' >> ]_allVars
  /\ [][ desired' # desired => dispatched' # dispatched ]_allVars
  /\ [][ (debounced # << >> /\ debounced' = << >>) =>
           declared' = Append(declared, dispatched[Len(dispatched)]) ]_allVars
  /\ [] ( (PxQuiet /\ dispatched # << >>) =>
           /\ declared # << >>
           /\ declared[Len(declared)] = dispatched[Len(dispatched)] )

\* C38: once a network is selected the meta configuration is initialized:
\* metaConfigurationInitialized is dispatched exactly once, never before a
\* network is selected, whatever the two fetches answer
C38_MetaAlwaysInitialized ==
  /\ [] (Len(initialized) <= 1)
  /\ [] (initialized # << >> => network # NoNetwork)
  /\ (network # NoNetwork) ~> (Len(initialized) = 1)

====
